---- MODULE Spec2Model ----
(***************************************************************************)
(* SML-APP: the sync orchestrator of services/cloud-api.ts                 *)
(* (pushComposerToCloud, pullComposerToLocal, getCloudComposer and the two *)
(* asset transfer helpers) over the local SQLite store, the local file     *)
(* system, the Supabase tables and the Supabase storage buckets.           *)
(*                                                                         *)
(* Every await of the orchestrator is a step of its own.  The outcome of   *)
(* every external operation (file read, upload, download, file write,      *)
(* table read, table insert) is chosen by the environment.  Under Spec the *)
(* invocations run one after the other, the way handlePush awaits each     *)
(* push before it starts the next.                                         *)
(***************************************************************************)
EXTENDS Integers, Sequences, FiniteSets, TLC

VARIABLES
    localComposers,   \* SQLite table composers  (rows in insertion order)
    localWorks,       \* SQLite table works
    localRecordings,  \* SQLite table recordings
    docFiles,         \* files under Directory.Documents: path -> content
    dataFiles,        \* files under Directory.Data:      path -> content
    dataDirs,         \* directories under Directory.Data
    cloudComposers,   \* Supabase table composers
    cloudWorks,       \* Supabase table works
    cloudRecordings,  \* Supabase table recordings
    cloudObjects,     \* Supabase storage: object key -> [bytes, contentType]
    nextId,           \* the next identifier a store or crypto.randomUUID() hands out
    faults,           \* number of failures the environment has injected so far
    call,             \* the locals of every pushComposerToCloud / pullComposerToLocal invocation
    meter,            \* a reportProgress closure driven on its own (the progress arithmetic)
    lastOp,           \* the last call of the local store's API: its input and what it returned
    provider,         \* StorageProvider: its React state and the stored preference
    pushModal,        \* SettingsScreen: the state of the push modal
    pullStatus        \* CloudLibraryScreen: the pull status of every remote composer

localVars == <<localComposers, localWorks, localRecordings, docFiles, dataFiles, dataDirs>>
cloudVars == <<cloudComposers, cloudWorks, cloudRecordings, cloudObjects>>
vars == <<localComposers, localWorks, localRecordings, docFiles, dataFiles, dataDirs,
          cloudComposers, cloudWorks, cloudRecordings, cloudObjects,
          nextId, faults, call, meter, lastOp, provider, pushModal, pullStatus>>
uiVars == <<provider, pushModal, pullStatus>>

(***************************************************************************)
(* Bounds of the model.                                                    *)
(***************************************************************************)
MaxCalls == 2
MaxWorks == 1
MaxRecs == 1
MaxFaults == 1
MaxTotalSteps == 120
MaxFiles == 2
MaxOps == 2

Procs == 1..MaxCalls

(***************************************************************************)
(* Values.  An asset reference is '' (NoRef), a path below the app's files *)
(* directory, the WebView URL of such a path, or the public URL of a       *)
(* storage object.  The copy marker stands for the source's suffix.  *)
(***************************************************************************)
NoRef == [kind |-> "empty"]

CopySuffix == " (copy)"

LocalPath(dir, id, ext) == [kind |-> "path", dir |-> dir, id |-> id, ext |-> ext]

WebViewSrc(path) == [kind |-> "websrc", path |-> path]

ObjectKey(bucket, folder, ids, ext) ==
    [bucket |-> bucket, folder |-> folder, ids |-> ids, ext |-> ext]

PublicUrl(key) == [kind |-> "url", key |-> key]

FILE_DIRS == [sheets |-> "SML/sheets", recordings |-> "SML/recordings", avatars |-> "SML/avatars"]

\* JavaScript's (v || ''): a missing column value reads as the empty string.
Null == "<null>"

OrEmpty(v) == IF v = Null THEN "" ELSE v

NullRef == [kind |-> "null"]

OrNoRef(v) == IF v = NullRef THEN NoRef ELSE v

\* variant: Math.round(currentStep / totalSteps) * 100
ProgressValue_RoundsFirst(currentStep, totalSteps) ==
    ((2 * currentStep + totalSteps) \div (2 * totalSteps)) * 100

\* Math.round((currentStep / totalSteps) * 100), i.e. floor(x + 1/2)
ProgressValue(currentStep, totalSteps) ==
    (200 * currentStep + totalSteps) \div (2 * totalSteps)

\* String.prototype.toLowerCase on the extensions that occur
ToLower(str) ==
    CASE str = "JPG" -> "jpg"
      [] str = "Mp3" -> "mp3"
      [] str = "PDF" -> "pdf"
      [] str = "README" -> "readme"
      [] OTHER -> str

\* name.split('.').pop()?.toLowerCase() || 'bin', the name given by its
\* dot-separated parts
FileExt(parts) ==
    IF ToLower(parts[Len(parts)]) = "" THEN "bin" ELSE ToLower(parts[Len(parts)])

\* the keys that the object literal mimeMap answers without holding them:
\* mimeMap[ext] is then a member inherited from Object.prototype, which is
\* truthy, so the || does not fall through to the default
InheritedKeys == {"constructor", "__proto__"}

getMimeType(ext) ==
    CASE ext = "pdf"  -> "application/pdf"
      [] ext = "jpg"  -> "image/jpeg"
      [] ext = "jpeg" -> "image/jpeg"
      [] ext = "png"  -> "image/png"
      [] ext = "webp" -> "image/webp"
      [] ext = "mp3"  -> "audio/mpeg"
      [] ext = "wav"  -> "audio/wav"
      [] ext = "m4a"  -> "audio/mp4"
      [] ext = "ogg"  -> "audio/ogg"
      [] ext \in InheritedKeys -> "Object.prototype." \o ext
      [] OTHER        -> "application/octet-stream"

(***************************************************************************)
(* Sequence helpers.                                                       *)
(***************************************************************************)
Range(s) == {s[k] : k \in DOMAIN s}

\* variant: the insert replaces what the table held
InsertRow_Truncates(table, row) == <<row>>

\* INSERT INTO ... / .insert(...): the table gains one row, the others stay
InsertRow(table, row) == Append(table, row)

\* SELECT * FROM ... WHERE composer_id = ? / .eq('composer_id', id)
SelectRows(rows, cid) == SelectSeq(rows, LAMBDA r : r.composer_id = cid)

\* the orders in which a SELECT without ORDER BY may return these rows
Orderings(rows) ==
    {[k \in DOMAIN rows |-> rows[f[k]]] :
        f \in {g \in [DOMAIN rows -> DOMAIN rows] : \A a, b \in DOMAIN rows : a # b => g[a] # g[b]}}

(***************************************************************************)
(* The local library the app holds when syncing starts.                    *)
(***************************************************************************)
ComposerNames == <<"Bach", "Chopin">>
NumLocal == Len(ComposerNames)
ComposerPeriods == <<"Baroque", "">>
WorkTitles == <<"Sonata", "Fugue", "Etude", "Prelude">>
RecTitles == <<"Live 1955", "Studio 1981", "Radio 1960">>

InitComposerRow(c) ==
    [id |-> c, name |-> <<ComposerNames[c]>>, period |-> ComposerPeriods[c],
     image |-> IF c = 1 THEN LocalPath(FILE_DIRS.avatars, c, "jpg") ELSE NoRef]

InitWorkRow(c, k) ==
    [id |-> 10 * c + k, composer_id |-> c,
     title |-> WorkTitles[((k - 1) % Len(WorkTitles)) + 1],
     edition |-> IF k % 2 = 1 THEN "Urtext" ELSE "",
     year |-> IF k % 2 = 1 THEN "" ELSE "1801",
     file_url |-> IF (k + c) % 2 = 0 THEN LocalPath(FILE_DIRS.sheets, 10 * c + k, "pdf") ELSE NoRef]

InitRecordingRow(c, k) ==
    [id |-> 10 * c + 5 + k, composer_id |-> c,
     title |-> RecTitles[((k - 1) % Len(RecTitles)) + 1],
     performer |-> IF k % 2 = 1 THEN "Gould" ELSE "",
     duration |-> IF k % 2 = 1 THEN "" ELSE "3:51",
     year |-> "1955",
     file_url |-> IF (k + c) % 2 = 0 THEN LocalPath(FILE_DIRS.recordings, 10 * c + 5 + k, "mp3") ELSE NoRef]

\* generateId / crypto.randomUUID / the cloud's id default: identifiers that
\* collide with none in use; the library's own rows lie below the first one
FirstFreshId == 100

RECURSIVE Flatten(_)
Flatten(ss) == IF ss = <<>> THEN <<>> ELSE Head(ss) \o Flatten(Tail(ss))

FileBytes(path) == [bytes |-> path.id]

InitFiles(rows, field) ==
    [p \in {r[field] : r \in {x \in Range(rows) : x[field] # NoRef}} |-> FileBytes(p)]

(***************************************************************************)
(* Invocation locals.                                                      *)
(***************************************************************************)
NoComposer ==
    [id |-> 0, name |-> <<>>, period |-> "", image |-> NoRef, works |-> <<>>, recordings |-> <<>>]

IdleCall ==
    [kind |-> "idle", pc |-> "idle", arg |-> 0, src |-> NoComposer,
     totalSteps |-> 0, currentStep |-> 0, progress |-> <<>>,
     image |-> NoRef, dest |-> 0, i |-> 0, fileRef |-> NoRef,
     log |-> <<>>, after |-> {}, mkdir |-> "none"]

IdleMeter == [totalSteps |-> 0, currentStep |-> 0, progress |-> <<>>]

NoOp == [op |-> "none", n |-> 0]

\* useState('cloud'), useState(false); nothing stored under sml_storage_mode
IdleProvider ==
    [storageMode |-> "cloud", dbReady |-> FALSE, isNativeApp |-> TRUE, preference |-> "none",
     loaded |-> FALSE, n |-> 0, last |-> [op |-> "none"]]

\* the useState initial values of SettingsScreen; batch is the local
\* selectedComposers of the handlePush that ran last, first the invocation
\* that pushes batch[1], n the number of handlePush calls so far
IdleModal ==
    [isPushing |-> FALSE, pushProgress |-> 0, pushResult |-> "null", selectedIds |-> {},
     batch |-> <<>>, first |-> 0, n |-> 0]

\* the useState initial values of CloudLibraryScreen: pullingIds is {} and
\* confirmPullId null (0); exiting is the id the confirm dialog was rendered
\* with while AnimatePresence still shows it after confirmPullId became
\* null; told holds the invocations whose outcome handlePull has recorded
IdleLibrary == [pullingIds |-> <<>>, confirmPullId |-> 0, exiting |-> 0, told |-> {}]

InitUi ==
    /\ provider = IdleProvider
    /\ pushModal = IdleModal
    /\ pullStatus = IdleLibrary

InitStores ==
    /\ localComposers = [c \in 1..NumLocal |-> InitComposerRow(c)]
    /\ \E nw \in 0..MaxWorks, nr \in 0..MaxRecs :
        /\ localWorks = Flatten([c \in 1..NumLocal |->
                            [k \in 1..(IF c = 1 THEN nw ELSE 2) |-> InitWorkRow(c, k)]])
        /\ localRecordings = Flatten([c \in 1..NumLocal |->
                            [k \in 1..(IF c = 1 THEN nr ELSE 1) |-> InitRecordingRow(c, k)]])
    /\ docFiles = InitFiles(localComposers, "image") @@ InitFiles(localWorks, "file_url")
                    @@ InitFiles(localRecordings, "file_url")
    /\ dataFiles = <<>>
    /\ dataDirs = {}
    /\ cloudComposers = <<>>
    /\ cloudWorks = <<>>
    /\ cloudRecordings = <<>>
    /\ cloudObjects = <<>>
    /\ nextId = FirstFreshId
    /\ faults = 0

Init ==
    /\ InitStores
    /\ call = [p \in Procs |-> IdleCall]
    /\ meter = IdleMeter
    /\ lastOp = NoOp
    /\ InitUi

(***************************************************************************)
(* local-database.ts: dbGetComposer and resolveImageUrl.                   *)
(***************************************************************************)
\* resolveImageUrl: '' stays '', a local path becomes the WebView URL of its
\* file URI; when getUri yields nothing the path itself is returned.
resolveImageUrl(imagePath, uriOk) ==
    IF imagePath = NoRef \/ imagePath.kind = "url" THEN imagePath
    ELSE IF uriOk THEN WebViewSrc(imagePath) ELSE imagePath

HydrateWork(w) ==
    [id |-> w.id, title |-> w.title, edition |-> w.edition, year |-> w.year,
     fileUrl |-> w.file_url]

HydrateRecording(r) ==
    [id |-> r.id, title |-> r.title, performer |-> r.performer, duration |-> r.duration,
     year |-> r.year, fileUrl |-> r.file_url]

MapSeq(Op(_), s) == [k \in DOMAIN s |-> Op(s[k])]

dbGetComposer(id, uriOk) ==
    LET composer == CHOOSE c \in Range(localComposers) : c.id = id
    IN  [id |-> composer.id, name |-> composer.name, period |-> composer.period,
         image |-> resolveImageUrl(composer.image, uriOk),
         works |-> MapSeq(HydrateWork, SelectRows(localWorks, id)),
         recordings |-> MapSeq(HydrateRecording, SelectRows(localRecordings, id))]

(***************************************************************************)
(* Loop control of the two for-loops (works, then recordings).             *)
(***************************************************************************)
\* variant: the function returns when the loop over the works is through
EnterRecordings_ReturnsEarly(src, i) == [pc |-> "done", i |-> 0]

EnterRecordings(src, i) ==
    IF i <= Len(src.recordings)
    THEN [pc |-> IF src.recordings[i].fileUrl # NoRef THEN "recAsset" ELSE "recInsert", i |-> i]
    ELSE [pc |-> "done", i |-> 0]

\* variant: the file transfer of a work is not awaited before its insert
EnterWorks_InsertsWithoutTransfer(src, i) ==
    IF i <= Len(src.works)
    THEN [pc |-> "workInsert", i |-> i]
    ELSE EnterRecordings(src, 1)

EnterWorks(src, i) ==
    IF i <= Len(src.works)
    THEN [pc |-> IF src.works[i].fileUrl # NoRef THEN "workAsset" ELSE "workInsert", i |-> i]
    ELSE EnterRecordings(src, 1)

\* variant: the avatar transfer counted as a step of its own
TotalSteps_CountsAvatar(src) ==
    (IF src.image # NoRef THEN 2 ELSE 1) + Len(src.works) + Len(src.recordings)

TotalSteps(src) == 1 + Len(src.works) + Len(src.recordings)

\* variant: onProgress is called twice for a step
reportProgress_ReportsTwice(c) ==
    [c EXCEPT !.currentStep = @ + 1,
              !.progress = @ \o <<ProgressValue(c.currentStep + 1, c.totalSteps),
                                  ProgressValue(c.currentStep + 1, c.totalSteps)>>]

\* variant: onProgress(...) before currentStep++
reportProgress_ReportsBeforeIncrement(c) ==
    [c EXCEPT !.currentStep = @ + 1,
              !.progress = Append(@, ProgressValue(c.currentStep, c.totalSteps))]

\* reportProgress: currentStep++, onProgress(round(currentStep / totalSteps * 100))
reportProgress(c) ==
    [c EXCEPT !.currentStep = @ + 1,
              !.progress = Append(@, ProgressValue(c.currentStep + 1, c.totalSteps))]

\* variant: progress reported only for an insert that succeeded
PushItemReport_OnlyOnSuccess(c, ok) == IF ok THEN reportProgress(c) ELSE c

\* after a Work/Recording insert of push: the error is only logged, then
\* reportProgress() runs whether or not the insert succeeded
PushItemReport(c, ok) == reportProgress(c)

Logged(c, op, what, i, ok, id) ==
    [c EXCEPT !.log = Append(@, [op |-> op, what |-> what, i |-> i, ok |-> ok, id |-> id])]

Goto(c, target) == [c EXCEPT !.pc = target.pc, !.i = target.i]

\* the environment may still inject a failure
MayFail == faults < MaxFaults

InFlight == {q \in Procs : call[q].kind # "idle" /\ call[q].pc \notin {"done", "rejected"}}

\* invocation p is the p-th one to start, once the earlier ones have settled
MayStart(p) ==
    /\ call[p].kind = "idle"
    /\ \A q \in Procs : q < p => call[q].kind # "idle"
    /\ InFlight = {}

(***************************************************************************)
(* uploadLocalFileToCloud: read the local file (Directory.Documents),      *)
(* decode it, upload with upsert under <remotePath>.<ext>, return the      *)
(* public URL.                                                             *)
(***************************************************************************)
readLocalFile(localPath) == docFiles[localPath]

CanRead(localPath) == localPath \in DOMAIN docFiles

UploadOutcomes == {"ok", "readError", "uploadError"}

UploadKey(localPath, bucket, folder, ids) ==
    ObjectKey(bucket, folder, ids, FileExt(<<localPath.ext>>))

\* what the environment can make of this upload
UploadPossible(localPath, out) ==
    IF CanRead(localPath) THEN out = "ok" \/ MayFail ELSE out = "readError"

\* variant: a failed upload leaves the local path as the reference
uploadLocalFileToCloud_KeepsLocalPath(localPath, bucket, folder, ids, out) ==
    IF out = "ok"
    THEN LET key == UploadKey(localPath, bucket, folder, ids)
         IN  [ok |-> TRUE, url |-> PublicUrl(key),
              objects |-> (key :> [bytes |-> readLocalFile(localPath).bytes,
                                   contentType |-> getMimeType(FileExt(<<localPath.ext>>))]) @@ cloudObjects]
    ELSE [ok |-> FALSE, url |-> localPath, objects |-> cloudObjects]

uploadLocalFileToCloud(localPath, bucket, folder, ids, out) ==
    IF out = "ok"
    THEN LET key == UploadKey(localPath, bucket, folder, ids)
         IN  [ok |-> TRUE, url |-> PublicUrl(key),
              objects |-> (key :> [bytes |-> readLocalFile(localPath).bytes,
                                   contentType |-> getMimeType(FileExt(<<localPath.ext>>))]) @@ cloudObjects]
    ELSE [ok |-> FALSE, url |-> NoRef, objects |-> cloudObjects]

FaultsAfterUpload(localPath, out) ==
    IF out # "ok" /\ CanRead(localPath) THEN faults + 1 ELSE faults

(***************************************************************************)
(* pushComposerToCloud                                                     *)
(***************************************************************************)
LocalComposerIds == {c.id : c \in Range(localComposers)}

\* the composer is hydrated by getComposer and handed to pushComposerToCloud
BeginPush(p, cid) ==
    /\ \E uriOk \in BOOLEAN :
        LET src == dbGetComposer(cid, uriOk)
        IN  call' = [call EXCEPT ![p] =
                [IdleCall EXCEPT !.kind = "push", !.arg = cid, !.src = src,
                                 !.totalSteps = TotalSteps(src),
                                 !.pc = IF src.image # NoRef THEN "avatar" ELSE "composer",
                                 !.after = {q \in Procs : call[q].pc = "done"}]]
    /\ UNCHANGED <<localVars, cloudVars, nextId, faults, meter, lastOp, uiVars>>

\* handleOpenPushModal / handlePush: one push after the other
PushStart(p, cid) ==
    /\ MayStart(p)
    /\ cid \in LocalComposerIds
    /\ BeginPush(p, cid)

PushAvatar(p) ==
    /\ call[p].kind = "push" /\ call[p].pc = "avatar"
    /\ \E out \in UploadOutcomes :
        /\ UploadPossible(call[p].src.image, out)
        /\ LET res == uploadLocalFileToCloud(call[p].src.image, "avatars", "composers",
                                             <<call[p].src.id>>, out)
           IN  /\ cloudObjects' = res.objects
               /\ call' = [call EXCEPT ![p] =
                    [Logged(call[p], "asset", "avatar", 0, res.ok, 0)
                        EXCEPT !.image = res.url, !.pc = "composer"]]
        /\ faults' = FaultsAfterUpload(call[p].src.image, out)
    /\ UNCHANGED <<localVars, cloudComposers, cloudWorks, cloudRecordings, nextId, meter, lastOp, uiVars>>

\* variant: the counts are left at the column default
PushComposerRow_WithoutCounts(id, src, cloudImageUrl) ==
    [id |-> id, name |-> src.name, period |-> src.period, image |-> cloudImageUrl,
     sheet_music_count |-> 0, recording_count |-> 0]

PushComposerRow(id, src, cloudImageUrl) ==
    [id |-> id, name |-> src.name, period |-> src.period, image |-> cloudImageUrl,
     sheet_music_count |-> Len(src.works), recording_count |-> Len(src.recordings)]

\* variant: the error of the composer insert is logged like the error of a
\* work insert, and the push goes on
PushInsertComposer_GoesOnAfterError(p) ==
    /\ call[p].kind = "push" /\ call[p].pc = "composer"
    /\ \E ok \in BOOLEAN :
        /\ ok \/ MayFail
        /\ faults' = IF ok THEN faults ELSE faults + 1
        /\ cloudComposers' = IF ok
                             THEN InsertRow(cloudComposers,
                                    PushComposerRow(nextId, call[p].src, call[p].image))
                             ELSE cloudComposers
        /\ nextId' = nextId + 1
        /\ call' = [call EXCEPT ![p] =
                Goto(reportProgress([Logged(call[p], "insert", "composer", 0, ok,
                                            IF ok THEN nextId ELSE 0)
                                        EXCEPT !.dest = nextId]),
                     EnterWorks(call[p].src, 1))]
    /\ UNCHANGED <<localVars, cloudWorks, cloudRecordings, cloudObjects, meter, lastOp, uiVars>>

PushInsertComposer(p) ==
    /\ call[p].kind = "push" /\ call[p].pc = "composer"
    /\ \E ok \in BOOLEAN :
        /\ ok \/ MayFail
        /\ faults' = IF ok THEN faults ELSE faults + 1
        /\ IF ok
           THEN /\ cloudComposers' = InsertRow(cloudComposers,
                        PushComposerRow(nextId, call[p].src, call[p].image))
                /\ nextId' = nextId + 1
                /\ call' = [call EXCEPT ![p] =
                        Goto(reportProgress([Logged(call[p], "insert", "composer", 0, TRUE, nextId)
                                                EXCEPT !.dest = nextId]),
                             EnterWorks(call[p].src, 1))]
           ELSE /\ call' = [call EXCEPT ![p] =
                        [Logged(call[p], "insert", "composer", 0, FALSE, 0) EXCEPT !.pc = "rejected"]]
                /\ UNCHANGED <<cloudComposers, nextId>>
    /\ UNCHANGED <<localVars, cloudWorks, cloudRecordings, cloudObjects, meter, lastOp, uiVars>>

PushWorkAsset(p) ==
    /\ call[p].kind = "push" /\ call[p].pc = "workAsset"
    /\ LET work == call[p].src.works[call[p].i]
       IN  \E out \in UploadOutcomes :
            /\ UploadPossible(work.fileUrl, out)
            /\ LET res == uploadLocalFileToCloud(work.fileUrl, "sheet-music", "sheets",
                                                 <<call[p].dest, work.id>>, out)
               IN  /\ cloudObjects' = res.objects
                   /\ call' = [call EXCEPT ![p] =
                        [Logged(call[p], "asset", "work", call[p].i, res.ok, 0)
                            EXCEPT !.fileRef = res.url, !.pc = "workInsert"]]
            /\ faults' = FaultsAfterUpload(work.fileUrl, out)
    /\ UNCHANGED <<localVars, cloudComposers, cloudWorks, cloudRecordings, nextId, meter, lastOp, uiVars>>

\* variant: the work row keeps the source's file reference
PushWorkRow_KeepsSourceFileUrl(id, cloudComposerId, work, cloudFileUrl) ==
    [id |-> id, composer_id |-> cloudComposerId, title |-> work.title,
     edition |-> OrEmpty(work.edition), year |-> OrEmpty(work.year), file_url |-> work.fileUrl]

\* variant: the work is attached to the composer row inserted last
PushWorkRow_AttachesToNewestComposer(id, cloudComposerId, work, cloudFileUrl) ==
    [id |-> id, composer_id |-> cloudComposers[Len(cloudComposers)].id, title |-> work.title,
     edition |-> OrEmpty(work.edition), year |-> OrEmpty(work.year), file_url |-> cloudFileUrl]

PushWorkRow(id, cloudComposerId, work, cloudFileUrl) ==
    [id |-> id, composer_id |-> cloudComposerId, title |-> work.title,
     edition |-> OrEmpty(work.edition), year |-> OrEmpty(work.year), file_url |-> cloudFileUrl]

\* variant: a failed work insert undoes what the push has inserted so far
PushWorkInsert_RollsBackOnError(p) ==
    /\ call[p].kind = "push" /\ call[p].pc = "workInsert"
    /\ \E ok \in BOOLEAN :
        /\ ok \/ MayFail
        /\ faults' = IF ok THEN faults ELSE faults + 1
        /\ cloudWorks' = IF ok
                         THEN InsertRow(cloudWorks, PushWorkRow(nextId, call[p].dest,
                                        call[p].src.works[call[p].i], call[p].fileRef))
                         ELSE SelectSeq(cloudWorks, LAMBDA r : r.composer_id # call[p].dest)
        /\ cloudComposers' = IF ok THEN cloudComposers
                              ELSE SelectSeq(cloudComposers, LAMBDA r : r.id # call[p].dest)
        /\ nextId' = IF ok THEN nextId + 1 ELSE nextId
        /\ call' = [call EXCEPT ![p] =
                IF ok
                THEN Goto(PushItemReport([Logged(call[p], "insert", "work", call[p].i, ok, nextId)
                                            EXCEPT !.fileRef = NoRef], ok),
                          EnterWorks(call[p].src, call[p].i + 1))
                ELSE [Logged(call[p], "insert", "work", call[p].i, ok, 0) EXCEPT !.pc = "rejected"]]
    /\ UNCHANGED <<localVars, cloudRecordings, cloudObjects, meter, lastOp, uiVars>>

PushWorkInsert(p) ==
    /\ call[p].kind = "push" /\ call[p].pc = "workInsert"
    /\ \E ok \in BOOLEAN :
        /\ ok \/ MayFail
        /\ faults' = IF ok THEN faults ELSE faults + 1
        /\ cloudWorks' = IF ok
                         THEN InsertRow(cloudWorks, PushWorkRow(nextId, call[p].dest,
                                        call[p].src.works[call[p].i], call[p].fileRef))
                         ELSE cloudWorks
        /\ nextId' = IF ok THEN nextId + 1 ELSE nextId
        /\ call' = [call EXCEPT ![p] =
                Goto(PushItemReport([Logged(call[p], "insert", "work", call[p].i, ok,
                                            IF ok THEN nextId ELSE 0)
                                        EXCEPT !.fileRef = NoRef], ok),
                     EnterWorks(call[p].src, call[p].i + 1))]
    /\ UNCHANGED <<localVars, cloudComposers, cloudRecordings, cloudObjects, meter, lastOp, uiVars>>

PushRecAsset(p) ==
    /\ call[p].kind = "push" /\ call[p].pc = "recAsset"
    /\ LET recording == call[p].src.recordings[call[p].i]
       IN  \E out \in UploadOutcomes :
            /\ UploadPossible(recording.fileUrl, out)
            /\ LET res == uploadLocalFileToCloud(recording.fileUrl, "recordings", "audio",
                                                 <<call[p].dest, recording.id>>, out)
               IN  /\ cloudObjects' = res.objects
                   /\ call' = [call EXCEPT ![p] =
                        [Logged(call[p], "asset", "rec", call[p].i, res.ok, 0)
                            EXCEPT !.fileRef = res.url, !.pc = "recInsert"]]
            /\ faults' = FaultsAfterUpload(recording.fileUrl, out)
    /\ UNCHANGED <<localVars, cloudComposers, cloudWorks, cloudRecordings, nextId, meter, lastOp, uiVars>>

PushRecordingRow(id, cloudComposerId, recording, cloudFileUrl) ==
    [id |-> id, composer_id |-> cloudComposerId, title |-> recording.title,
     performer |-> OrEmpty(recording.performer), duration |-> OrEmpty(recording.duration),
     year |-> OrEmpty(recording.year), file_url |-> cloudFileUrl]

PushRecInsert(p) ==
    /\ call[p].kind = "push" /\ call[p].pc = "recInsert"
    /\ \E ok \in BOOLEAN :
        /\ ok \/ MayFail
        /\ faults' = IF ok THEN faults ELSE faults + 1
        /\ cloudRecordings' = IF ok
                              THEN InsertRow(cloudRecordings, PushRecordingRow(nextId, call[p].dest,
                                        call[p].src.recordings[call[p].i], call[p].fileRef))
                              ELSE cloudRecordings
        /\ nextId' = IF ok THEN nextId + 1 ELSE nextId
        /\ call' = [call EXCEPT ![p] =
                Goto(PushItemReport([Logged(call[p], "insert", "rec", call[p].i, ok,
                                            IF ok THEN nextId ELSE 0)
                                        EXCEPT !.fileRef = NoRef], ok),
                     EnterRecordings(call[p].src, call[p].i + 1))]
    /\ UNCHANGED <<localVars, cloudComposers, cloudWorks, cloudObjects, meter, lastOp, uiVars>>

(***************************************************************************)
(* getCloudComposer: three reads; only the first one is checked for errors.*)
(***************************************************************************)
CloudComposerIds == {c.id : c \in Range(cloudComposers)}

CloudWorkToWork(w) ==
    [id |-> w.id, composerId |-> w.composer_id, title |-> w.title,
     edition |-> OrEmpty(w.edition), year |-> OrEmpty(w.year), fileUrl |-> OrNoRef(w.file_url)]

CloudRecordingToRecording(r) ==
    [id |-> r.id, composerId |-> r.composer_id, title |-> r.title,
     performer |-> OrEmpty(r.performer), duration |-> OrEmpty(r.duration),
     year |-> OrEmpty(r.year), fileUrl |-> OrNoRef(r.file_url)]

\* pullComposerToLocal is started from the cloud library list
PullStart(p, cloudComposerId) ==
    /\ MayStart(p)
    /\ cloudComposerId \in CloudComposerIds
    /\ call' = [call EXCEPT ![p] =
            [IdleCall EXCEPT !.kind = "pull", !.arg = cloudComposerId, !.pc = "readComposer",
                             !.after = {q \in Procs : call[q].pc = "done"}]]
    /\ UNCHANGED <<localVars, cloudVars, nextId, faults, meter, lastOp, uiVars>>

\* .from('composers').select('*').eq('id', id).single(): the row, or on an
\* error (a missing row included) no data
NullRow == [id |-> 0, name |-> <<>>, period |-> Null, image |-> NullRef]

ComposerRead(id, ok) ==
    IF ok /\ id \in CloudComposerIds
    THEN [error |-> FALSE, data |-> CHOOSE c \in Range(cloudComposers) : c.id = id]
    ELSE [error |-> TRUE, data |-> NullRow]

\* variant: the result of the composer read is not checked
ComposerReadThrows_Never(res) == FALSE

\* if (composerError || !composer) throw
ComposerReadThrows(res) == res.error \/ res.data = NullRow

PullReadComposer(p) ==
    /\ call[p].kind = "pull" /\ call[p].pc = "readComposer"
    /\ \E ok \in BOOLEAN :
        /\ ok \/ MayFail
        /\ faults' = IF ok THEN faults ELSE faults + 1
        /\ IF ~ComposerReadThrows(ComposerRead(call[p].arg, ok))
           THEN LET composer == ComposerRead(call[p].arg, ok).data
                IN  call' = [call EXCEPT ![p] =
                        [Logged(call[p], "read", "composer", 0, ok, composer.id)
                            EXCEPT !.pc = "readWorks",
                                   !.src = [NoComposer EXCEPT !.id = composer.id,
                                                !.name = composer.name,
                                                !.period = OrEmpty(composer.period),
                                                !.image = OrNoRef(composer.image)]]]
           ELSE call' = [call EXCEPT ![p] =
                        [Logged(call[p], "read", "composer", 0, FALSE, 0) EXCEPT !.pc = "rejected"]]
    /\ UNCHANGED <<localVars, cloudVars, nextId, meter, lastOp, uiVars>>

\* const { data: works } = ... ; (works || [])
WorksRead(id, ok, rows) == IF ok THEN MapSeq(CloudWorkToWork, rows) ELSE <<>>

PullReadWorks(p) ==
    /\ call[p].kind = "pull" /\ call[p].pc = "readWorks"
    /\ \E ok \in BOOLEAN :
        /\ ok \/ MayFail
        /\ faults' = IF ok THEN faults ELSE faults + 1
        /\ \E rows \in Orderings(SelectRows(cloudWorks, call[p].arg)) :
            call' = [call EXCEPT ![p] =
                [Logged(call[p], "read", "works", 0, ok, 0)
                    EXCEPT !.pc = "readRecordings",
                           !.src.works = WorksRead(call[p].arg, ok, rows)]]
    /\ UNCHANGED <<localVars, cloudVars, nextId, meter, lastOp, uiVars>>

RecordingsRead(id, ok, rows) == IF ok THEN MapSeq(CloudRecordingToRecording, rows) ELSE <<>>

\* the last read of getCloudComposer, then totalSteps and the avatar test
PullReadRecordings(p) ==
    /\ call[p].kind = "pull" /\ call[p].pc = "readRecordings"
    /\ \E ok \in BOOLEAN :
        /\ ok \/ MayFail
        /\ faults' = IF ok THEN faults ELSE faults + 1
        /\ \E rows \in Orderings(SelectRows(cloudRecordings, call[p].arg)) :
            LET src == [call[p].src EXCEPT !.recordings = RecordingsRead(call[p].arg, ok, rows)]
            IN  call' = [call EXCEPT ![p] =
                    [Logged(call[p], "read", "recordings", 0, ok, 0)
                        EXCEPT !.src = src,
                               !.totalSteps = TotalSteps(src),
                               !.pc = IF src.image # NoRef THEN "avatar" ELSE "composer"]]
    /\ UNCHANGED <<localVars, cloudVars, nextId, meter, lastOp, uiVars>>

(***************************************************************************)
(* downloadCloudFileToLocal: fetch the public URL, encode, make sure the   *)
(* category directory exists (whatever Filesystem.mkdir throws is caught   *)
(* and dropped), write <dir>/<fileId>.<ext> under Directory.Data, return   *)
(* the path.                                                               *)
(***************************************************************************)
CanFetch(cloudUrl) == cloudUrl.kind = "url" /\ cloudUrl.key \in DOMAIN cloudObjects

\* "mkdirError": Filesystem.mkdir rejects for another reason than an existing
\* directory, and the writeFile after it succeeds; "mkdirAndWriteError": both reject
DownloadOutcomes == {"ok", "fetchError", "writeError", "mkdirError", "mkdirAndWriteError"}

DownloadPossible(cloudUrl, out) ==
    IF CanFetch(cloudUrl) THEN out = "ok" \/ MayFail ELSE out = "fetchError"

\* Filesystem.mkdir: rejects when the directory exists, or for a reason of
\* the environment's; creates the directory otherwise
Mkdir(dir, out) ==
    CASE out = "fetchError" -> [result |-> "none", dirs |-> dataDirs]
      [] out \in {"mkdirError", "mkdirAndWriteError"} -> [result |-> "error", dirs |-> dataDirs]
      [] OTHER -> [result |-> IF dir \in dataDirs THEN "exists" ELSE "created",
                   dirs |-> dataDirs \cup {dir}]

downloadCloudFileToLocal(cloudUrl, category, fileId, out) ==
    IF out \in {"ok", "mkdirError"}
    THEN LET filePath == LocalPath(FILE_DIRS[category], fileId, cloudUrl.key.ext)
         IN  [ok |-> TRUE, path |-> filePath,
              files |-> (filePath :> [bytes |-> cloudObjects[cloudUrl.key].bytes]) @@ dataFiles,
              dirs |-> Mkdir(FILE_DIRS[category], out).dirs,
              mkdir |-> Mkdir(FILE_DIRS[category], out).result]
    ELSE [ok |-> FALSE, path |-> NoRef, files |-> dataFiles,
          dirs |-> Mkdir(FILE_DIRS[category], out).dirs,
          mkdir |-> Mkdir(FILE_DIRS[category], out).result]

FaultsAfterDownload(cloudUrl, out) ==
    IF out # "ok" /\ CanFetch(cloudUrl) THEN faults + 1 ELSE faults

(***************************************************************************)
(* pullComposerToLocal                                                     *)
(***************************************************************************)
PullAvatar(p) ==
    /\ call[p].kind = "pull" /\ call[p].pc = "avatar"
    /\ \E out \in DownloadOutcomes :
        /\ DownloadPossible(call[p].src.image, out)
        /\ LET res == downloadCloudFileToLocal(call[p].src.image, "avatars", nextId, out)
           IN  /\ dataFiles' = res.files
               /\ dataDirs' = res.dirs
               /\ call' = [call EXCEPT ![p] =
                    [Logged(call[p], "asset", "avatar", 0, res.ok, IF res.ok THEN nextId ELSE 0)
                        EXCEPT !.image = res.path, !.pc = "composer", !.mkdir = res.mkdir]]
        /\ faults' = FaultsAfterDownload(call[p].src.image, out)
    /\ nextId' = nextId + 1
    /\ UNCHANGED <<localComposers, localWorks, localRecordings, docFiles, cloudVars, meter, lastOp, uiVars>>

\* variant: the copy marker is left out
PullComposerRow_NoSuffix(id, cloudComposer, localImagePath) ==
    [id |-> id, name |-> cloudComposer.name, period |-> cloudComposer.period,
     image |-> localImagePath]

PullComposerRow(id, cloudComposer, localImagePath) ==
    [id |-> id, name |-> cloudComposer.name \o <<CopySuffix>>, period |-> cloudComposer.period,
     image |-> localImagePath]

\* dbCreateComposer throws when the INSERT fails; nothing catches it
PullCreateComposer(p) ==
    /\ call[p].kind = "pull" /\ call[p].pc = "composer"
    /\ \E ok \in BOOLEAN :
        /\ ok \/ MayFail
        /\ faults' = IF ok THEN faults ELSE faults + 1
        /\ IF ok
           THEN /\ localComposers' = InsertRow(localComposers,
                        PullComposerRow(nextId, call[p].src, call[p].image))
                /\ nextId' = nextId + 1
                /\ call' = [call EXCEPT ![p] =
                        Goto(reportProgress([Logged(call[p], "insert", "composer", 0, TRUE, nextId)
                                                EXCEPT !.dest = nextId]),
                             EnterWorks(call[p].src, 1))]
           ELSE /\ call' = [call EXCEPT ![p] =
                        [Logged(call[p], "insert", "composer", 0, FALSE, 0) EXCEPT !.pc = "rejected"]]
                /\ UNCHANGED <<localComposers, nextId>>
    /\ UNCHANGED <<localWorks, localRecordings, docFiles, dataFiles, dataDirs, cloudVars, meter, lastOp, uiVars>>

PullWorkAsset(p) ==
    /\ call[p].kind = "pull" /\ call[p].pc = "workAsset"
    /\ LET work == call[p].src.works[call[p].i]
       IN  \E out \in DownloadOutcomes :
            /\ DownloadPossible(work.fileUrl, out)
            /\ LET res == downloadCloudFileToLocal(work.fileUrl, "sheets", nextId, out)
               IN  /\ dataFiles' = res.files
                   /\ dataDirs' = res.dirs
                   /\ call' = [call EXCEPT ![p] =
                        [Logged(call[p], "asset", "work", call[p].i, res.ok, IF res.ok THEN nextId ELSE 0)
                            EXCEPT !.fileRef = res.path, !.pc = "workInsert", !.mkdir = res.mkdir]]
            /\ faults' = FaultsAfterDownload(work.fileUrl, out)
    /\ nextId' = nextId + 1
    /\ UNCHANGED <<localComposers, localWorks, localRecordings, docFiles, cloudVars, meter, lastOp, uiVars>>

\* variant: the work keeps the composerId it had in the cloud
PullWorkRow_KeepsSourceComposerId(id, localComposerId, work, localFilePath) ==
    [id |-> id, composer_id |-> work.composerId, title |-> work.title,
     edition |-> OrEmpty(work.edition), year |-> OrEmpty(work.year), file_url |-> localFilePath]

PullWorkRow(id, localComposerId, work, localFilePath) ==
    [id |-> id, composer_id |-> localComposerId, title |-> work.title,
     edition |-> OrEmpty(work.edition), year |-> OrEmpty(work.year), file_url |-> localFilePath]

\* await dbCreateWork(...) stands outside any try: a failed INSERT rejects the pull
PullWorkInsert(p) ==
    /\ call[p].kind = "pull" /\ call[p].pc = "workInsert"
    /\ \E ok \in BOOLEAN :
        /\ ok \/ MayFail
        /\ faults' = IF ok THEN faults ELSE faults + 1
        /\ IF ok
           THEN /\ localWorks' = InsertRow(localWorks, PullWorkRow(nextId, call[p].dest,
                                        call[p].src.works[call[p].i], call[p].fileRef))
                /\ nextId' = nextId + 1
                /\ call' = [call EXCEPT ![p] =
                        Goto(reportProgress([Logged(call[p], "insert", "work", call[p].i, TRUE, nextId)
                                                EXCEPT !.fileRef = NoRef]),
                             EnterWorks(call[p].src, call[p].i + 1))]
           ELSE /\ call' = [call EXCEPT ![p] =
                        [Logged(call[p], "insert", "work", call[p].i, FALSE, 0)
                            EXCEPT !.pc = "rejected"]]
                /\ UNCHANGED <<localWorks, nextId>>
    /\ UNCHANGED <<localComposers, localRecordings, docFiles, dataFiles, dataDirs, cloudVars, meter, lastOp, uiVars>>

PullRecAsset(p) ==
    /\ call[p].kind = "pull" /\ call[p].pc = "recAsset"
    /\ LET recording == call[p].src.recordings[call[p].i]
       IN  \E out \in DownloadOutcomes :
            /\ DownloadPossible(recording.fileUrl, out)
            /\ LET res == downloadCloudFileToLocal(recording.fileUrl, "recordings", nextId, out)
               IN  /\ dataFiles' = res.files
                   /\ dataDirs' = res.dirs
                   /\ call' = [call EXCEPT ![p] =
                        [Logged(call[p], "asset", "rec", call[p].i, res.ok, IF res.ok THEN nextId ELSE 0)
                            EXCEPT !.fileRef = res.path, !.pc = "recInsert", !.mkdir = res.mkdir]]
            /\ faults' = FaultsAfterDownload(recording.fileUrl, out)
    /\ nextId' = nextId + 1
    /\ UNCHANGED <<localComposers, localWorks, localRecordings, docFiles, cloudVars, meter, lastOp, uiVars>>

PullRecordingRow(id, localComposerId, recording, localFilePath) ==
    [id |-> id, composer_id |-> localComposerId, title |-> recording.title,
     performer |-> OrEmpty(recording.performer), duration |-> OrEmpty(recording.duration),
     year |-> OrEmpty(recording.year), file_url |-> localFilePath]

PullRecInsert(p) ==
    /\ call[p].kind = "pull" /\ call[p].pc = "recInsert"
    /\ \E ok \in BOOLEAN :
        /\ ok \/ MayFail
        /\ faults' = IF ok THEN faults ELSE faults + 1
        /\ IF ok
           THEN /\ localRecordings' = InsertRow(localRecordings, PullRecordingRow(nextId, call[p].dest,
                                        call[p].src.recordings[call[p].i], call[p].fileRef))
                /\ nextId' = nextId + 1
                /\ call' = [call EXCEPT ![p] =
                        Goto(reportProgress([Logged(call[p], "insert", "rec", call[p].i, TRUE, nextId)
                                                EXCEPT !.fileRef = NoRef]),
                             EnterRecordings(call[p].src, call[p].i + 1))]
           ELSE /\ call' = [call EXCEPT ![p] =
                        [Logged(call[p], "insert", "rec", call[p].i, FALSE, 0)
                            EXCEPT !.pc = "rejected"]]
                /\ UNCHANGED <<localRecordings, nextId>>
    /\ UNCHANGED <<localComposers, localWorks, docFiles, dataFiles, dataDirs, cloudVars, meter, lastOp, uiVars>>

(***************************************************************************)
(* The sync specification.                                                 *)
(***************************************************************************)
Next ==
    \E p \in Procs :
        \/ \E cid \in LocalComposerIds : PushStart(p, cid)
        \/ PushAvatar(p)
        \/ PushInsertComposer(p)
        \/ PushWorkAsset(p)
        \/ PushWorkInsert(p)
        \/ PushRecAsset(p)
        \/ PushRecInsert(p)
        \/ \E rid \in CloudComposerIds : PullStart(p, rid)
        \/ PullReadComposer(p)
        \/ PullReadWorks(p)
        \/ PullReadRecordings(p)
        \/ PullAvatar(p)
        \/ PullCreateComposer(p)
        \/ PullWorkAsset(p)
        \/ PullWorkInsert(p)
        \/ PullRecAsset(p)
        \/ PullRecInsert(p)

Spec == Init /\ [][Next]_vars

(***************************************************************************)
(* The sync specification when every external operation a push awaits      *)
(* completes, with success or with failure: a push that can take its next  *)
(* step takes it.                                                          *)
(***************************************************************************)
PushStep(p) ==
    \/ PushAvatar(p)
    \/ PushInsertComposer(p)
    \/ PushWorkAsset(p)
    \/ PushWorkInsert(p)
    \/ PushRecAsset(p)
    \/ PushRecInsert(p)

NextPushes ==
    \E p \in Procs :
        \/ \E cid \in LocalComposerIds : PushStart(p, cid)
        \/ PushStep(p)

SpecFair == Init /\ [][NextPushes]_vars /\ \A p \in Procs : WF_vars(PushStep(p))

(***************************************************************************)
(* Overlapping pushes.  pushComposerToCloud is an async function without   *)
(* any lock: a second call may start while a first one is between two of   *)
(* its awaits, and their steps then interleave in any order.               *)
(***************************************************************************)
\* two calls, the second one started at any moment of the first
MayStartConcurrently(p) ==
    /\ call[p].kind = "idle"
    /\ \A q \in Procs : q < p => call[q].kind # "idle"
    /\ Cardinality({q \in Procs : call[q].kind # "idle"}) < 2

PushStartConcurrently(p, cid) ==
    /\ MayStartConcurrently(p)
    /\ cid \in LocalComposerIds
    /\ BeginPush(p, cid)

NextConcurrent ==
    \E p \in Procs :
        \/ \E cid \in LocalComposerIds : PushStartConcurrently(p, cid)
        \/ PushAvatar(p)
        \/ PushInsertComposer(p)
        \/ PushWorkAsset(p)
        \/ PushWorkInsert(p)
        \/ PushRecAsset(p)
        \/ PushRecInsert(p)

SpecConcurrent == Init /\ [][NextConcurrent]_vars

(***************************************************************************)
(* Asset files on their own: files of any name are saved into the local    *)
(* asset store (saveLocalFile) and uploaded the way push uploads them      *)
(* (uploadLocalFileToCloud).                                               *)
(***************************************************************************)
FileNames ==
    {<<"score", "pdf">>, <<"score", "PDF">>, <<"photo", "JPG">>, <<"photo", "jpeg">>,
     <<"cover", "png">>, <<"cover", "webp">>, <<"take", "Mp3">>, <<"take", "wav">>,
     <<"take", "m4a">>, <<"take", "ogg">>, <<"notes", "xyz">>, <<"README">>,
     <<"draft", "">>, <<"a", "tar", "gz">>, <<"thesis", "constructor">>}

Categories == {"sheets", "recordings", "avatars"}

\* the bucket and folder push uploads a file of this category to
BucketOf(category) ==
    CASE category = "avatars" -> [bucket |-> "avatars", folder |-> "composers"]
      [] category = "sheets" -> [bucket |-> "sheet-music", folder |-> "sheets"]
      [] category = "recordings" -> [bucket |-> "recordings", folder |-> "audio"]

CategoryOf(localPath) == CHOOSE c \in Categories : FILE_DIRS[c] = localPath.dir

saveLocalFile(parts, category, id) == LocalPath(FILE_DIRS[category], id, FileExt(parts))

SaveLocalFile(parts, category) ==
    /\ nextId - FirstFreshId < MaxFiles
    /\ docFiles' = (saveLocalFile(parts, category, nextId) :> [bytes |-> nextId]) @@ docFiles
    /\ nextId' = nextId + 1
    /\ UNCHANGED <<localComposers, localWorks, localRecordings, dataFiles, dataDirs, cloudVars,
                   faults, call, meter, lastOp, uiVars>>

UploadLocalFile(localPath) ==
    /\ localPath.id >= FirstFreshId
    /\ \E out \in UploadOutcomes :
        /\ UploadPossible(localPath, out)
        /\ cloudObjects' = uploadLocalFileToCloud(localPath, BucketOf(CategoryOf(localPath)).bucket,
                                BucketOf(CategoryOf(localPath)).folder, <<localPath.id>>, out).objects
        /\ faults' = FaultsAfterUpload(localPath, out)
    /\ UNCHANGED <<localVars, cloudComposers, cloudWorks, cloudRecordings, nextId, call, meter, lastOp, uiVars>>

NextAssets ==
    \/ \E parts \in FileNames, category \in Categories : SaveLocalFile(parts, category)
    \/ \E localPath \in DOMAIN docFiles : UploadLocalFile(localPath)

SpecAssets == Init /\ [][NextAssets]_vars

(***************************************************************************)
(* local-database.ts on its own: the create, update and delete functions   *)
(* of the local store, called in any order.  The schema declares           *)
(* works.composer_id and recordings.composer_id as foreign keys with       *)
(* ON DELETE CASCADE, and initDatabase switches foreign keys on.           *)
(***************************************************************************)
RejectRows(rows, field, value) == SelectSeq(rows, LAMBDA r : r[field] # value)

RowIds(rows) == {r.id : r \in Range(rows)}

RowOf(rows, id) == CHOOSE r \in Range(rows) : r.id = id

\* UPDATE ... WHERE id = ?
ReplaceRow(rows, row) == [k \in DOMAIN rows |-> IF rows[k].id = row.id THEN row ELSE rows[k]]

\* (input.f || fallback)
Get(input, f, fallback) == IF f \in DOMAIN input THEN input[f] ELSE fallback

\* { ...row, fileUrl: row.file_url }
WithFileUrl(row) ==
    [f \in DOMAIN row \cup {"fileUrl"} |-> IF f = "fileUrl" THEN row.file_url ELSE row[f]]

\* the id of no composer row
MissingComposerId == 0

ForeignKeyHolds(composer_id) == composer_id \in RowIds(localComposers)

dbCreateComposer(id, composer) ==
    [id |-> id, name |-> composer.name, period |-> composer.period, image |-> composer.image]

dbCreateWork(id, work) ==
    [id |-> id, composer_id |-> work.composer_id, title |-> work.title,
     edition |-> Get(work, "edition", ""), year |-> Get(work, "year", ""),
     file_url |-> Get(work, "fileUrl", NoRef)]

dbCreateRecording(id, recording) ==
    [id |-> id, composer_id |-> recording.composer_id, title |-> recording.title,
     performer |-> Get(recording, "performer", ""), duration |-> Get(recording, "duration", ""),
     year |-> Get(recording, "year", ""), file_url |-> Get(recording, "fileUrl", NoRef)]

\* fields = Object.keys(updates) without works, recordings, id and the two counts
dbUpdateComposer(row, updates) ==
    LET fields == DOMAIN updates \ {"works", "recordings", "id", "sheetMusicCount", "recordingCount"}
    IN  [f \in DOMAIN row |-> IF f \in fields THEN updates[f] ELSE row[f]]

\* if (work.title) updates.title = work.title; ... : a key is taken over only
\* when its value is truthy
dbUpdateWork(row, work) ==
    LET fields == {f \in {"title", "edition", "year"} : f \in DOMAIN work /\ work[f] # ""}
        withFile == "fileUrl" \in DOMAIN work /\ work.fileUrl # NoRef
    IN  [f \in DOMAIN row |->
            IF f \in fields THEN work[f]
            ELSE IF f = "file_url" /\ withFile THEN work.fileUrl
            ELSE row[f]]

\* const { id, created_at, composer_id, fileUrl, ...rest } = recording
RestOf(recording) == DOMAIN recording \ {"id", "created_at", "composer_id", "fileUrl"}

\* a key of rest that is no column makes the UPDATE statement fail
dbUpdateRecordingThrows(row, recording) == RestOf(recording) \ DOMAIN row # {}

dbUpdateRecording(row, recording) ==
    LET withFile == "fileUrl" \in DOMAIN recording /\ recording.fileUrl # NoRef
    IN  [f \in DOMAIN row |->
            IF f \in RestOf(recording) THEN recording[f]
            ELSE IF f = "file_url" /\ withFile THEN recording.fileUrl
            ELSE row[f]]

\* variant: foreign keys are not enforced, the children stay
dbDeleteComposer_NoCascade(id) ==
    [composers |-> RejectRows(localComposers, "id", id),
     works |-> localWorks,
     recordings |-> localRecordings]

\* DELETE FROM composers WHERE id = ?, with the cascade of the schema
dbDeleteComposer(id) ==
    [composers |-> RejectRows(localComposers, "id", id),
     works |-> RejectRows(localWorks, "composer_id", id),
     recordings |-> RejectRows(localRecordings, "composer_id", id)]

\* what the callers pass in
ComposerInputs == {[name |-> <<"Handel">>, period |-> "Baroque", image |-> NoRef]}

WorkInputs ==
    {[composer_id |-> c, title |-> "Aria", edition |-> "Peters"] :
        c \in RowIds(localComposers) \cup {MissingComposerId}}

RecordingInputs ==
    {[composer_id |-> c, title |-> "Take 2", fileUrl |-> NoRef] :
        c \in RowIds(localComposers) \cup {MissingComposerId}}

ComposerUpdates ==
    {<<>>, [name |-> <<"Handel">>], [period |-> ""],
     [period |-> "Romantic", image |-> NoRef], [id |-> MissingComposerId, name |-> <<"Handel">>]}

WorkUpdates ==
    {<<>>, [title |-> "Aria"], [edition |-> ""], [edition |-> "Peters", year |-> "1900"],
     [fileUrl |-> NoRef], [year |-> "", fileUrl |-> LocalPath(FILE_DIRS.sheets, 1, "pdf")]}

RecordingUpdates ==
    {<<>>, [performer |-> ""], [title |-> "Take 2", duration |-> "4:10"],
     [fileUrl |-> NoRef], [year |-> "", fileUrl |-> LocalPath(FILE_DIRS.recordings, 1, "mp3")],
     [composerId |-> MissingComposerId, title |-> "Take 2"],
     [composer_id |-> MissingComposerId, id |-> MissingComposerId, performer |-> "Gould"]}

Called(op, table, id, input, before, result, thrown) ==
    [op |-> op, table |-> table, n |-> lastOp.n + 1, id |-> id, input |-> input,
     before |-> before, result |-> result, thrown |-> thrown]

StoreFrame == UNCHANGED <<docFiles, dataFiles, dataDirs, cloudVars, faults, call, meter, uiVars>>

DbCreateComposer(composer) ==
    /\ lastOp.n < MaxOps
    /\ localComposers' = InsertRow(localComposers, dbCreateComposer(nextId, composer))
    /\ nextId' = nextId + 1
    /\ lastOp' = Called("create", "composers", nextId, composer, <<>>,
                        dbCreateComposer(nextId, composer), FALSE)
    /\ UNCHANGED <<localWorks, localRecordings>>
    /\ StoreFrame

DbCreateWork(work) ==
    /\ lastOp.n < MaxOps
    /\ IF ForeignKeyHolds(work.composer_id)
       THEN /\ localWorks' = InsertRow(localWorks, dbCreateWork(nextId, work))
            /\ lastOp' = Called("create", "works", nextId, work, <<>>,
                                WithFileUrl(dbCreateWork(nextId, work)), FALSE)
       ELSE /\ UNCHANGED localWorks
            /\ lastOp' = Called("create", "works", nextId, work, <<>>, <<>>, TRUE)
    /\ nextId' = nextId + 1
    /\ UNCHANGED <<localComposers, localRecordings>>
    /\ StoreFrame

DbCreateRecording(recording) ==
    /\ lastOp.n < MaxOps
    /\ IF ForeignKeyHolds(recording.composer_id)
       THEN /\ localRecordings' = InsertRow(localRecordings, dbCreateRecording(nextId, recording))
            /\ lastOp' = Called("create", "recordings", nextId, recording, <<>>,
                                WithFileUrl(dbCreateRecording(nextId, recording)), FALSE)
       ELSE /\ UNCHANGED localRecordings
            /\ lastOp' = Called("create", "recordings", nextId, recording, <<>>, <<>>, TRUE)
    /\ nextId' = nextId + 1
    /\ UNCHANGED <<localComposers, localWorks>>
    /\ StoreFrame

DbUpdateComposer(id, updates) ==
    /\ lastOp.n < MaxOps
    /\ id \in RowIds(localComposers)
    /\ localComposers' = ReplaceRow(localComposers, dbUpdateComposer(RowOf(localComposers, id), updates))
    /\ lastOp' = Called("update", "composers", id, updates, RowOf(localComposers, id),
                        dbUpdateComposer(RowOf(localComposers, id), updates), FALSE)
    /\ UNCHANGED <<localWorks, localRecordings, nextId>>
    /\ StoreFrame

DbUpdateWork(id, work) ==
    /\ lastOp.n < MaxOps
    /\ id \in RowIds(localWorks)
    /\ localWorks' = ReplaceRow(localWorks, dbUpdateWork(RowOf(localWorks, id), work))
    /\ lastOp' = Called("update", "works", id, work, RowOf(localWorks, id),
                        WithFileUrl(dbUpdateWork(RowOf(localWorks, id), work)), FALSE)
    /\ UNCHANGED <<localComposers, localRecordings, nextId>>
    /\ StoreFrame

DbUpdateRecording(id, recording) ==
    /\ lastOp.n < MaxOps
    /\ id \in RowIds(localRecordings)
    /\ IF dbUpdateRecordingThrows(RowOf(localRecordings, id), recording)
       THEN /\ UNCHANGED localRecordings
            /\ lastOp' = Called("update", "recordings", id, recording,
                                RowOf(localRecordings, id), <<>>, TRUE)
       ELSE /\ localRecordings' = ReplaceRow(localRecordings,
                                    dbUpdateRecording(RowOf(localRecordings, id), recording))
            /\ lastOp' = Called("update", "recordings", id, recording, RowOf(localRecordings, id),
                                WithFileUrl(dbUpdateRecording(RowOf(localRecordings, id), recording)),
                                FALSE)
    /\ UNCHANGED <<localComposers, localWorks, nextId>>
    /\ StoreFrame

DbDeleteComposer(id) ==
    /\ lastOp.n < MaxOps
    /\ id \in RowIds(localComposers)
    /\ localComposers' = dbDeleteComposer(id).composers
    /\ localWorks' = dbDeleteComposer(id).works
    /\ localRecordings' = dbDeleteComposer(id).recordings
    /\ lastOp' = Called("delete", "composers", id, <<>>, RowOf(localComposers, id), <<>>, FALSE)
    /\ UNCHANGED nextId
    /\ StoreFrame

DbDeleteWork(id) ==
    /\ lastOp.n < MaxOps
    /\ id \in RowIds(localWorks)
    /\ localWorks' = RejectRows(localWorks, "id", id)
    /\ lastOp' = Called("delete", "works", id, <<>>, RowOf(localWorks, id), <<>>, FALSE)
    /\ UNCHANGED <<localComposers, localRecordings, nextId>>
    /\ StoreFrame

DbDeleteRecording(id) ==
    /\ lastOp.n < MaxOps
    /\ id \in RowIds(localRecordings)
    /\ localRecordings' = RejectRows(localRecordings, "id", id)
    /\ lastOp' = Called("delete", "recordings", id, <<>>, RowOf(localRecordings, id), <<>>, FALSE)
    /\ UNCHANGED <<localComposers, localWorks, nextId>>
    /\ StoreFrame

NextStore ==
    \/ \E composer \in ComposerInputs : DbCreateComposer(composer)
    \/ \E work \in WorkInputs : DbCreateWork(work)
    \/ \E recording \in RecordingInputs : DbCreateRecording(recording)
    \/ \E id \in RowIds(localComposers), updates \in ComposerUpdates : DbUpdateComposer(id, updates)
    \/ \E id \in RowIds(localWorks), work \in WorkUpdates : DbUpdateWork(id, work)
    \/ \E id \in RowIds(localRecordings), recording \in RecordingUpdates : DbUpdateRecording(id, recording)
    \/ \E id \in RowIds(localComposers) : DbDeleteComposer(id)
    \/ \E id \in RowIds(localWorks) : DbDeleteWork(id)
    \/ \E id \in RowIds(localRecordings) : DbDeleteRecording(id)

SpecStore == Init /\ [][NextStore]_vars

(***************************************************************************)
(* local-api.ts: the delete functions of localApi, which remove the files  *)
(* of a record from the local asset store before they delete its row.      *)
(* deleteLocalFile catches whatever Filesystem.deleteFile throws.          *)
(***************************************************************************)
Without(files, paths) == [f \in DOMAIN files \ paths |-> files[f]]

\* the paths deleteLocalFile is called with that name a file and whose
\* Filesystem.deleteFile does not fail
Deleted(targets, failed) == (targets \cap DOMAIN docFiles) \ failed

FileRefs(items) == {x.fileUrl : x \in Range(items)} \ {NoRef}

\* what the composer's rows reference in the store
StoredRefs(id) ==
    ({RowOf(localComposers, id).image}
        \cup {w.file_url : w \in Range(SelectRows(localWorks, id))}
        \cup {r.file_url : r \in Range(SelectRows(localRecordings, id))}) \ {NoRef}

ApiCalled(op, id, owned, uriOk, readOk, failed, thrown) ==
    [op |-> op, n |-> lastOp.n + 1, id |-> id, owned |-> owned, uriOk |-> uriOk,
     readOk |-> readOk, failed |-> failed, thrown |-> thrown]

ApiFrame == UNCHANGED <<dataFiles, dataDirs, cloudVars, nextId, call, meter, uiVars>>

\* localApi.deleteComposer: dbGetComposer, deleteLocalFile for every work
\* file, every recording file and the image, all inside one try; then
\* dbDeleteComposer
ApiDeleteComposer(id) ==
    /\ lastOp.n < MaxOps
    /\ id \in RowIds(localComposers)
    /\ \E uriOk, readOk, deleteOk \in BOOLEAN :
        LET composerData == dbGetComposer(id, uriOk)
            targets == IF readOk
                       THEN FileRefs(composerData.works) \cup FileRefs(composerData.recordings)
                                \cup ({composerData.image} \ {NoRef})
                       ELSE {}
        IN  \E failed \in SUBSET (targets \cap DOMAIN docFiles) :
                LET injected == Cardinality(failed) + (IF readOk THEN 0 ELSE 1)
                                    + (IF deleteOk THEN 0 ELSE 1)
                IN  /\ faults + injected <= MaxFaults
                    /\ faults' = faults + injected
                    /\ docFiles' = Without(docFiles, Deleted(targets, failed))
                    /\ localComposers' = IF deleteOk THEN dbDeleteComposer(id).composers ELSE localComposers
                    /\ localWorks' = IF deleteOk THEN dbDeleteComposer(id).works ELSE localWorks
                    /\ localRecordings' = IF deleteOk THEN dbDeleteComposer(id).recordings
                                           ELSE localRecordings
                    /\ lastOp' = ApiCalled("deleteComposer", id, StoredRefs(id), uriOk, readOk,
                                           failed, ~deleteOk)
    /\ ApiFrame

\* localApi.deleteWork: findWorkComposer, deleteLocalFile(work.fileUrl), dbDeleteWork
ApiDeleteWork(id) ==
    /\ lastOp.n < MaxOps
    /\ id \in RowIds(localWorks)
    /\ \E readOk \in BOOLEAN :
        LET targets == IF readOk THEN {RowOf(localWorks, id).file_url} \ {NoRef} ELSE {}
        IN  \E failed \in SUBSET (targets \cap DOMAIN docFiles) :
                LET injected == Cardinality(failed) + (IF readOk THEN 0 ELSE 1)
                IN  /\ faults + injected <= MaxFaults
                    /\ faults' = faults + injected
                    /\ docFiles' = Without(docFiles, Deleted(targets, failed))
                    /\ localWorks' = RejectRows(localWorks, "id", id)
                    /\ lastOp' = ApiCalled("deleteWork", id, {RowOf(localWorks, id).file_url} \ {NoRef},
                                           TRUE, readOk, failed, FALSE)
    /\ UNCHANGED <<localComposers, localRecordings>>
    /\ ApiFrame

\* localApi.deleteRecording: findRecordingComposer, deleteLocalFile(rec.fileUrl),
\* dbDeleteRecording
ApiDeleteRecording(id) ==
    /\ lastOp.n < MaxOps
    /\ id \in RowIds(localRecordings)
    /\ \E readOk \in BOOLEAN :
        LET targets == IF readOk THEN {RowOf(localRecordings, id).file_url} \ {NoRef} ELSE {}
        IN  \E failed \in SUBSET (targets \cap DOMAIN docFiles) :
                LET injected == Cardinality(failed) + (IF readOk THEN 0 ELSE 1)
                IN  /\ faults + injected <= MaxFaults
                    /\ faults' = faults + injected
                    /\ docFiles' = Without(docFiles, Deleted(targets, failed))
                    /\ localRecordings' = RejectRows(localRecordings, "id", id)
                    /\ lastOp' = ApiCalled("deleteRecording", id,
                                           {RowOf(localRecordings, id).file_url} \ {NoRef},
                                           TRUE, readOk, failed, FALSE)
    /\ UNCHANGED <<localComposers, localWorks>>
    /\ ApiFrame

NextLocalApi ==
    \/ \E id \in RowIds(localComposers) : ApiDeleteComposer(id)
    \/ \E id \in RowIds(localWorks) : ApiDeleteWork(id)
    \/ \E id \in RowIds(localRecordings) : ApiDeleteRecording(id)

SpecLocalApi == Init /\ [][NextLocalApi]_vars

(***************************************************************************)
(* StorageContext.tsx: the storage-mode provider.  loadMode runs once      *)
(* after the provider has mounted, setStorageMode whenever the user picks  *)
(* a mode; a restart of the app mounts the provider anew and keeps what    *)
(* Preferences holds.  Each call is taken as a whole, one call after the   *)
(* other; whether initDatabase and the two Preferences calls succeed is    *)
(* the environment's choice.                                               *)
(***************************************************************************)
StorageModes == {"cloud", "local"}

\* initLocalDatabase: setDbReady(true), or on an error setStorageModeState('cloud')
initLocalDatabase(pr, initOk) ==
    IF initOk THEN [pr EXCEPT !.dbReady = TRUE] ELSE [pr EXCEPT !.storageMode = "cloud"]

\* loadMode, the body of the effect
loadMode(pr, getOk, initOk) ==
    IF getOk /\ pr.preference = "local" /\ pr.isNativeApp
    THEN initLocalDatabase([pr EXCEPT !.storageMode = "local"], initOk)
    ELSE pr

\* setStorageMode up to its last await
setStorageMode(pr, mode, initOk) ==
    IF mode = "local" /\ ~pr.isNativeApp
    THEN pr
    ELSE [(IF mode = "local" /\ ~pr.dbReady THEN initLocalDatabase(pr, initOk) ELSE pr)
            EXCEPT !.storageMode = mode]

\* await Preferences.set(...), not reached on the early return
Persisted(pr, mode, setOk) ==
    IF (mode = "local" /\ ~pr.isNativeApp) \/ ~setOk THEN pr.preference ELSE mode

ProviderCalled(pr, op, mode, initOk, setOk) ==
    [pr EXCEPT !.n = pr.n + 1,
               !.last = [op |-> op, mode |-> mode, initOk |-> initOk, setOk |-> setOk,
                         dbReadyBefore |-> provider.dbReady]]

ProviderFrame ==
    UNCHANGED <<localVars, cloudVars, nextId, faults, call, meter, lastOp, pushModal, pullStatus>>

InitProvider ==
    /\ InitStores
    /\ call = [p \in Procs |-> IdleCall]
    /\ meter = IdleMeter
    /\ lastOp = NoOp
    /\ pushModal = IdleModal
    /\ pullStatus = IdleLibrary
    /\ \E native \in BOOLEAN, pref \in {"none", "cloud", "local"} :
        /\ pref = "local" => native
        /\ provider = [IdleProvider EXCEPT !.isNativeApp = native, !.preference = pref]

LoadMode ==
    /\ ~provider.loaded
    /\ provider.n < MaxOps + 2
    /\ \E getOk, initOk \in BOOLEAN :
        provider' = ProviderCalled([loadMode(provider, getOk, initOk) EXCEPT !.loaded = TRUE],
                                   "loadMode", "none", initOk, getOk)
    /\ ProviderFrame

SetStorageMode(mode) ==
    /\ provider.loaded
    /\ provider.n < MaxOps + 2
    /\ \E initOk, setOk \in BOOLEAN :
        provider' = ProviderCalled(
            [setStorageMode(provider, mode, initOk)
                EXCEPT !.preference = Persisted(provider, mode, setOk)],
            "setStorageMode", mode, initOk, setOk)
    /\ ProviderFrame

\* the app is started again: fresh React state, fresh database module
Restart ==
    /\ provider.loaded
    /\ provider.n < MaxOps + 2
    /\ provider' = [provider EXCEPT !.storageMode = "cloud", !.dbReady = FALSE,
                                     !.loaded = FALSE, !.n = provider.n + 1,
                                     !.last = [op |-> "restart"]]
    /\ ProviderFrame

NextProvider ==
    \/ LoadMode
    \/ \E mode \in StorageModes : SetStorageMode(mode)
    \/ Restart

SpecProvider == InitProvider /\ [][NextProvider]_vars

(***************************************************************************)
(* SettingsScreen.tsx: the push modal.  handlePush pushes the selected     *)
(* composers in a for loop that awaits each pushComposerToCloud; the       *)
(* button that calls it is rendered only while isPushing is false and      *)
(* pushResult is not 'success'.  The steps of the pushes themselves are    *)
(* those of the sync specification.                                        *)
(***************************************************************************)
\* localComposers.filter(c => selectedIds.has(c.id))
ListOrder(selectedIds) ==
    SelectSeq([k \in DOMAIN localComposers |-> localComposers[k].id], LAMBDA id : id \in selectedIds)

\* Math.round(((i + itemProgress / 100) / totalComposers) * 100), i from 0
OverallProgress(i, itemProgress, totalComposers) ==
    (2 * (100 * i + itemProgress) + totalComposers) \div (2 * totalComposers)

IdleProcs == {p \in Procs : call[p].kind = "idle"}

\* the invocations the running (or last) handlePush has started
StartedOfBatch == {p \in Procs : p >= pushModal.first /\ call[p].kind # "idle"}

\* variant: the loop catches the rejection of a push and takes the next composer
LoopGoesOn_AfterRejection(c) == c.pc \in {"done", "rejected"}

\* the await in the for loop: the next iteration begins when the push has resolved
LoopGoesOn(c) == c.pc = "done"

ModalFrame ==
    UNCHANGED <<localVars, cloudVars, nextId, faults, call, meter, lastOp, provider, pullStatus>>

\* the modal is opened (again): setSelectedIds(new Set()), setPushResult(null);
\* nothing in it looks at isPushing
HandleOpenPushModal ==
    /\ pushModal.pushResult # "null" \/ pushModal.selectedIds # {}
    /\ pushModal' = [pushModal EXCEPT !.selectedIds = {}, !.pushResult = "null"]
    /\ ModalFrame

\* handlePush up to the loop; the selection is what the user has toggled
HandlePush(selectedIds) ==
    /\ ~pushModal.isPushing
    /\ pushModal.pushResult # "success"
    /\ selectedIds # {}
    /\ selectedIds \subseteq LocalComposerIds
    /\ Cardinality(selectedIds) <= Cardinality(IdleProcs)
    /\ pushModal' = [pushModal EXCEPT !.isPushing = TRUE, !.pushProgress = 0,
                                      !.selectedIds = selectedIds,
                                      !.batch = ListOrder(selectedIds),
                                      !.first = MaxCalls - Cardinality(IdleProcs) + 1,
                                      !.n = pushModal.n + 1]
    /\ ModalFrame

\* one iteration of the loop: pushComposerToCloud(selectedComposers[i], ...)
BatchPush(p) ==
    /\ pushModal.isPushing
    /\ MayStart(p)
    /\ p >= pushModal.first
    /\ p - pushModal.first < Len(pushModal.batch)
    /\ p > pushModal.first => LoopGoesOn(call[p - 1])
    /\ BeginPush(p, pushModal.batch[p - pushModal.first + 1])

\* after the loop: setPushProgress(100), setPushResult('success'); finally
BatchSucceeds ==
    /\ pushModal.isPushing
    /\ Cardinality(StartedOfBatch) = Len(pushModal.batch)
    /\ \A p \in StartedOfBatch : LoopGoesOn(call[p])
    /\ pushModal' = [pushModal EXCEPT !.pushProgress = 100, !.pushResult = "success",
                                      !.isPushing = FALSE]
    /\ ModalFrame

\* catch: setPushResult('error'); finally
BatchFails ==
    /\ pushModal.isPushing
    /\ \E p \in StartedOfBatch :
        /\ call[p].pc = "rejected"
        /\ \A q \in StartedOfBatch : q <= p
    /\ pushModal' = [pushModal EXCEPT !.pushResult = "error", !.isPushing = FALSE]
    /\ ModalFrame

NextBatch ==
    \/ HandleOpenPushModal
    \/ \E selectedIds \in SUBSET LocalComposerIds : HandlePush(selectedIds)
    \/ BatchSucceeds
    \/ BatchFails
    \/ \E p \in Procs :
        \/ BatchPush(p)
        \/ PushAvatar(p)
        \/ PushInsertComposer(p)
        \/ PushWorkAsset(p)
        \/ PushWorkInsert(p)
        \/ PushRecAsset(p)
        \/ PushRecInsert(p)

SpecBatch == Init /\ [][NextBatch]_vars

(***************************************************************************)
(* CloudLibraryScreen.tsx: the list of the remote composers with a pull    *)
(* button each, the confirm dialog and handlePull.  The steps of a pull    *)
(* are those of the sync specification; pulls started from the screen are  *)
(* not awaited by anything but their own handlePull, so two of them may    *)
(* be in flight together.                                                  *)
(***************************************************************************)
\* the remote library the screen lists: two composers pushed earlier, the
\* first with one work whose score is in the bucket, the second with an
\* avatar and one recording with its audio file
LibraryScoreKey == ObjectKey("sheet-music", "sheets", <<51, 53>>, "pdf")

LibraryAvatarKey == ObjectKey("avatars", "composers", <<2>>, "jpg")

LibraryAudioKey == ObjectKey("recordings", "audio", <<52, 54>>, "mp3")

LibraryComposers ==
    <<PushComposerRow(51, [NoComposer EXCEPT !.name = <<"Bach">>, !.period = "Baroque",
                                              !.works = <<1>>], NoRef),
      PushComposerRow(52, [NoComposer EXCEPT !.name = <<"Chopin">>, !.recordings = <<1>>],
                      PublicUrl(LibraryAvatarKey))>>

LibraryWorks ==
    <<PushWorkRow(53, 51, [title |-> "Sonata", edition |-> "Urtext", year |-> ""],
                  PublicUrl(LibraryScoreKey))>>

LibraryRecordings ==
    <<PushRecordingRow(54, 52, [title |-> "Live 1955", performer |-> "Gould", duration |-> "",
                                year |-> "1955"], PublicUrl(LibraryAudioKey))>>

LibraryObjects ==
    (LibraryScoreKey :> [bytes |-> 53, contentType |-> "application/pdf"])
    @@ (LibraryAvatarKey :> [bytes |-> 2, contentType |-> "image/jpeg"])
    @@ (LibraryAudioKey :> [bytes |-> 54, contentType |-> "audio/mpeg"])

InitLibrary ==
    /\ localComposers = <<>> /\ localWorks = <<>> /\ localRecordings = <<>>
    /\ docFiles = <<>> /\ dataFiles = <<>> /\ dataDirs = {}
    /\ cloudComposers = LibraryComposers
    /\ cloudWorks = LibraryWorks
    /\ cloudRecordings = LibraryRecordings
    /\ cloudObjects = LibraryObjects
    /\ nextId = FirstFreshId
    /\ faults = 0
    /\ call = [p \in Procs |-> IdleCall]
    /\ meter = IdleMeter
    /\ lastOp = NoOp
    /\ InitUi

\* const pullState = pullingIds[composer.id]
PullState(id) ==
    IF id \in DOMAIN pullStatus.pullingIds THEN pullStatus.pullingIds[id] ELSE "idle"

\* the button calling setConfirmPullId(composer.id) is rendered for a composer
\* whose state is 'error' or undefined
PullButtonShown(pullState) == pullState \notin {"done", "pulling"}

LibraryFrame ==
    UNCHANGED <<localVars, cloudVars, nextId, faults, call, meter, lastOp, provider, pushModal>>

\* a pull button of the list; the dialog covers the list while it is shown
OpenConfirm(id) ==
    /\ pullStatus.confirmPullId = 0 /\ pullStatus.exiting = 0
    /\ id \in CloudComposerIds
    /\ PullButtonShown(PullState(id))
    /\ pullStatus' = [pullStatus EXCEPT !.confirmPullId = id]
    /\ LibraryFrame

\* the cancel button or the backdrop: setConfirmPullId(null)
CancelConfirm ==
    /\ pullStatus.confirmPullId # 0
    /\ pullStatus' = [pullStatus EXCEPT !.confirmPullId = 0, !.exiting = pullStatus.confirmPullId]
    /\ LibraryFrame

\* the exit animation of the dialog has ended and the dialog is removed
ExitComplete ==
    /\ pullStatus.confirmPullId = 0 /\ pullStatus.exiting # 0
    /\ pullStatus' = [pullStatus EXCEPT !.exiting = 0]
    /\ LibraryFrame

\* the id the confirm button of the dialog on screen passes to handlePull
DialogId == IF pullStatus.confirmPullId # 0 THEN pullStatus.confirmPullId ELSE pullStatus.exiting

\* handlePull up to its await: the confirm button of the dialog, which is on
\* screen while confirmPullId is set and until its exit animation has ended
HandlePull(p) ==
    /\ DialogId # 0
    /\ call[p].kind = "idle"
    /\ \A q \in Procs : q < p => call[q].kind # "idle"
    /\ pullStatus' = [pullStatus EXCEPT !.confirmPullId = 0, !.exiting = DialogId,
                                        !.pullingIds = (DialogId :> "pulling") @@ @]
    /\ call' = [call EXCEPT ![p] =
            [IdleCall EXCEPT !.kind = "pull", !.arg = DialogId, !.pc = "readComposer",
                             !.after = {q \in Procs : call[q].pc = "done"}]]
    /\ UNCHANGED <<localVars, cloudVars, nextId, faults, meter, lastOp, provider, pushModal>>

\* handlePull after its await: 'done' when the pull resolved, 'error' in the catch
PullSettles(p) ==
    /\ call[p].kind = "pull"
    /\ call[p].pc \in {"done", "rejected"}
    /\ p \notin pullStatus.told
    /\ pullStatus' = [pullStatus EXCEPT
            !.pullingIds = (call[p].arg :> (IF call[p].pc = "done" THEN "done" ELSE "error")) @@ @,
            !.told = @ \cup {p}]
    /\ LibraryFrame

NextLibrary ==
    \/ \E id \in CloudComposerIds : OpenConfirm(id)
    \/ CancelConfirm
    \/ ExitComplete
    \/ \E p \in Procs :
        \/ HandlePull(p)
        \/ PullSettles(p)
        \/ PullReadComposer(p)
        \/ PullReadWorks(p)
        \/ PullReadRecordings(p)
        \/ PullAvatar(p)
        \/ PullCreateComposer(p)
        \/ PullWorkAsset(p)
        \/ PullWorkInsert(p)
        \/ PullRecAsset(p)
        \/ PullRecInsert(p)

SpecLibrary == InitLibrary /\ [][NextLibrary]_vars

(***************************************************************************)
(* The progress arithmetic on its own: a reportProgress closure with any   *)
(* totalSteps = 1 + w + r, called once per step.                           *)
(***************************************************************************)
InitProgress ==
    /\ InitStores
    /\ call = [p \in Procs |-> IdleCall]
    /\ \E t \in 1..MaxTotalSteps : meter = [IdleMeter EXCEPT !.totalSteps = t]
    /\ lastOp = NoOp
    /\ InitUi

MeterStep ==
    /\ meter.currentStep < meter.totalSteps
    /\ meter' = reportProgress(meter)
    /\ UNCHANGED <<localVars, cloudVars, nextId, faults, call, lastOp, uiVars>>

NextProgress == MeterStep

SpecProgress == InitProgress /\ [][NextProgress]_vars

(***************************************************************************)
(* Vocabulary of the properties.                                           *)
(***************************************************************************)
Pushes == {p \in Procs : call[p].kind = "push"}
Pulls == {p \in Procs : call[p].kind = "pull"}

Last(s) == s[Len(s)]

\* positions of the log of invocation p that satisfy Test
Entries(p, Test(_)) == {k \in DOMAIN call[p].log : Test(call[p].log[k])}

IsItemInsert(e) == e.op = "insert" /\ e.what \in {"work", "rec"}
IsFailedItemInsert(e) == IsItemInsert(e) /\ ~e.ok
IsFailedAsset(e) == e.op = "asset" /\ ~e.ok

\* the record that owns an asset: the composer owns the avatar
OwnerOf(what) == IF what = "avatar" THEN "composer" ELSE what

\* the destination table an invocation inserts records of this sort into
DestTable(p, what) ==
    IF call[p].kind = "push"
    THEN (CASE what = "composer" -> cloudComposers
            [] what = "work" -> cloudWorks
            [] what = "rec" -> cloudRecordings)
    ELSE (CASE what = "composer" -> localComposers
            [] what = "work" -> localWorks
            [] what = "rec" -> localRecordings)

AssetOf(row, what) == IF what = "composer" THEN row.image ELSE row.file_url

RowsWithId(rows, id) == {rows[k] : k \in {j \in DOMAIN rows : rows[j].id = id}}

Count(s, x) == Cardinality({k \in DOMAIN s : s[k] = x})

SameBag(a, b) == \A x \in Range(a) \cup Range(b) : Count(a, x) = Count(b, x)

(***************************************************************************)
(* C1: whatever asset transfers and Work/Recording inserts succeed or fail, *)
(* a pushComposer that returns has called onProgress exactly 1 + w + r      *)
(* times and the last value it reported is 100; the only way a push ends    *)
(* without returning is the failed composer insert, before any item.        *)
(***************************************************************************)
C1_PushReportsEveryStep ==
    \A p \in Pushes :
        /\ call[p].pc = "done" =>
            /\ Len(call[p].progress) = 1 + Len(call[p].src.works) + Len(call[p].src.recordings)
            /\ Last(call[p].progress) = 100
        /\ call[p].pc = "rejected" =>
            /\ Last(call[p].log) = [op |-> "insert", what |-> "composer", i |-> 0, ok |-> FALSE, id |-> 0]
            /\ Entries(p, IsItemInsert) = {}

C1_Witness ==
    \E p \in Pushes :
        /\ call[p].pc = "done"
        /\ Len(call[p].src.works) >= 1 /\ Len(call[p].src.recordings) >= 1
        /\ Entries(p, IsFailedAsset) # {}
        /\ Entries(p, IsFailedItemInsert) # {}

(***************************************************************************)
(* C2: the values round(currentStep / totalSteps * 100) reported for       *)
(* currentStep = 1..totalSteps are integers in [0,100] and strictly        *)
(* increasing.  As stated this holds for every totalSteps.                 *)
(***************************************************************************)
C2_StrictlyIncreasing ==
    /\ \A k \in DOMAIN meter.progress : meter.progress[k] \in 0..100
    /\ \A k \in 1..(Len(meter.progress) - 1) : meter.progress[k] < meter.progress[k + 1]

\* C2 as amended: the values are integers in [0,100], never decrease, end at
\* 100, and are strictly increasing whenever totalSteps is at most 100.
C2_NonDecreasing ==
    /\ \A k \in DOMAIN meter.progress : meter.progress[k] \in 0..100
    /\ \A k \in 1..(Len(meter.progress) - 1) : meter.progress[k] <= meter.progress[k + 1]
    /\ meter.totalSteps <= 100 =>
        \A k \in 1..(Len(meter.progress) - 1) : meter.progress[k] < meter.progress[k + 1]
    /\ (meter.totalSteps > 0 /\ meter.currentStep = meter.totalSteps) => Last(meter.progress) = 100

C2_Witness ==
    /\ meter.totalSteps = 100
    /\ meter.currentStep = meter.totalSteps
    /\ Len(meter.progress) = 100

(***************************************************************************)
(* C3: a pullComposer of a remote composer with no works and no recordings *)
(* that completes has called onProgress exactly once, with 100, whether or *)
(* not the avatar download succeeded.                                      *)
(***************************************************************************)
PulledEmptyComposer(p) ==
    /\ call[p].kind = "pull"
    /\ call[p].pc = "done"
    /\ SelectRows(cloudWorks, call[p].arg) = <<>>
    /\ SelectRows(cloudRecordings, call[p].arg) = <<>>

C3_EmptyPullReportsOnce ==
    \A p \in Procs : PulledEmptyComposer(p) => call[p].progress = <<100>>

C3_Witness ==
    \E p \in Procs :
        /\ PulledEmptyComposer(p)
        /\ \E k \in DOMAIN call[p].log :
            call[p].log[k] = [op |-> "asset", what |-> "avatar", i |-> 0, ok |-> FALSE, id |-> 0]

(***************************************************************************)
(* C4: in push and in pull a failed asset transfer (avatar, work file,     *)
(* recording file) never rejects the call: the next thing the invocation   *)
(* does is the insert of the owning record, which when it succeeds stores  *)
(* the record with an empty asset reference; a call is only ever rejected  *)
(* right after a failed read or insert, and a call that completes has      *)
(* attempted the insert of every item.                                     *)
(***************************************************************************)
InsertPcOf(what) ==
    CASE what = "avatar" -> "composer"
      [] what = "work" -> "workInsert"
      [] what = "rec" -> "recInsert"

C4_AssetFailureIsIsolated ==
    \A p \in Pushes \cup Pulls :
        /\ \A k \in Entries(p, IsFailedAsset) :
            LET e == call[p].log[k]
            IN  IF k = Len(call[p].log)
                THEN /\ call[p].pc = InsertPcOf(e.what)
                     /\ (IF e.what = "avatar" THEN call[p].image ELSE call[p].fileRef) = NoRef
                ELSE LET n == call[p].log[k + 1]
                     IN  /\ n.op = "insert" /\ n.what = OwnerOf(e.what) /\ n.i = e.i
                         /\ n.ok => \E row \in RowsWithId(DestTable(p, n.what), n.id) :
                                        AssetOf(row, n.what) = NoRef
        /\ call[p].pc = "rejected" => Last(call[p].log).op \in {"insert", "read"}
        /\ call[p].pc = "done" =>
            Cardinality(Entries(p, IsItemInsert)) = Len(call[p].src.works) + Len(call[p].src.recordings)

C4_Witness ==
    \E p \in Pulls : \E k \in DOMAIN call[p].log :
        /\ call[p].pc = "done"
        /\ call[p].log[k].op = "asset" /\ call[p].log[k].what = "work" /\ ~call[p].log[k].ok
        /\ \E row \in RowsWithId(localWorks, call[p].log[k + 1].id) : row.file_url = NoRef
        /\ \E m \in DOMAIN call[p].log :
            m > k /\ call[p].log[m].op = "insert" /\ call[p].log[m].what = "rec" /\ call[p].log[m].ok

(***************************************************************************)
(* C5: in push a failed Work or Recording insert is not raised: progress   *)
(* is reported for that step as for any other, every later item is still   *)
(* attempted, the call completes, and the remote store lacks exactly the   *)
(* rows whose insert failed.                                               *)
(***************************************************************************)
OkItemInsertIds(p, what) ==
    {call[p].log[k].id : k \in {j \in DOMAIN call[p].log :
        call[p].log[j].op = "insert" /\ call[p].log[j].what = what /\ call[p].log[j].ok}}

C5_PushInsertFailureIsIsolated ==
    \A p \in Pushes :
        /\ Entries(p, IsFailedItemInsert) # {} => call[p].pc # "rejected"
        /\ call[p].dest # 0 =>
            /\ Len(call[p].progress) = 1 + Cardinality(Entries(p, IsItemInsert))
            /\ {r.id : r \in Range(SelectRows(cloudWorks, call[p].dest))} = OkItemInsertIds(p, "work")
            /\ {r.id : r \in Range(SelectRows(cloudRecordings, call[p].dest))} = OkItemInsertIds(p, "rec")
        /\ call[p].pc = "done" =>
            /\ \A i \in DOMAIN call[p].src.works :
                Cardinality({k \in Entries(p, IsItemInsert) :
                    call[p].log[k].what = "work" /\ call[p].log[k].i = i}) = 1
            /\ \A i \in DOMAIN call[p].src.recordings :
                Cardinality({k \in Entries(p, IsItemInsert) :
                    call[p].log[k].what = "rec" /\ call[p].log[k].i = i}) = 1

C5_Witness ==
    \E p \in Pushes : \E k, m \in DOMAIN call[p].log :
        /\ call[p].pc = "done"
        /\ k < m
        /\ IsFailedItemInsert(call[p].log[k])
        /\ IsItemInsert(call[p].log[m]) /\ call[p].log[m].ok
        /\ Last(call[p].progress) = 100

(***************************************************************************)
(* C6: in pull a failed Work or Recording insert is tolerated as in push:  *)
(* the call does not reject and progress is reported for that step too.    *)
(* The code does not do this: dbCreateWork / dbCreateRecording throw out   *)
(* of pullComposerToLocal.                                                 *)
(***************************************************************************)
C6_PullInsertFailureIsIsolated ==
    \A p \in Pulls :
        Entries(p, IsFailedItemInsert) # {} =>
            /\ call[p].pc # "rejected"
            /\ Len(call[p].progress) = 1 + Cardinality(Entries(p, IsItemInsert))

(***************************************************************************)
(* C7: when the read of the remote composer row fails, pullComposer        *)
(* rejects, onProgress is never called, and the invocation has created no  *)
(* local composer, work, recording or asset file: every row and file the   *)
(* local store gained was written by an invocation that got past the read. *)
(***************************************************************************)
ComposerReadFailed(p) ==
    /\ call[p].kind = "pull"
    /\ call[p].log # <<>>
    /\ call[p].log[1].op = "read" /\ call[p].log[1].what = "composer" /\ ~call[p].log[1].ok

IsLocalWrite(e) == e.ok /\ e.op \in {"insert", "asset"}

LocalWritesOf(p) == {call[p].log[k].id : k \in Entries(p, IsLocalWrite)}

StoredIds ==
    {r.id : r \in Range(localComposers)} \cup {r.id : r \in Range(localWorks)}
        \cup {r.id : r \in Range(localRecordings)}

CreatedLocally ==
    {id \in StoredIds \cup {f.id : f \in DOMAIN dataFiles} : id >= FirstFreshId}

C7_FailedComposerReadCreatesNothing ==
    /\ \A p \in Procs : ComposerReadFailed(p) =>
        /\ call[p].pc = "rejected"
        /\ call[p].progress = <<>>
        /\ call[p].dest = 0
        /\ LocalWritesOf(p) = {}
    /\ CreatedLocally = UNION {LocalWritesOf(p) : p \in {q \in Pulls : ~ComposerReadFailed(q)}}

C7_Witness ==
    \E p \in Procs :
        /\ ComposerReadFailed(p)
        /\ call[p].arg \in CloudComposerIds
        /\ SelectRows(cloudWorks, call[p].arg) # <<>>
        /\ SelectRows(cloudRecordings, call[p].arg) # <<>>

(***************************************************************************)
(* C8: when the read of the remote works or of the remote recordings       *)
(* fails, pullComposer rejects before any step and creates nothing         *)
(* locally.  The code does not do this: getCloudComposer drops the error   *)
(* of both reads and goes on with an empty collection.                     *)
(***************************************************************************)
IsFailedChildRead(e) == e.op = "read" /\ e.what \in {"works", "recordings"} /\ ~e.ok

C8_FailedChildReadRejects ==
    \A p \in Pulls :
        Entries(p, IsFailedChildRead) # {} =>
            /\ call[p].dest = 0
            /\ call[p].progress = <<>>
            /\ call[p].pc # "done"

(***************************************************************************)
(* C9: round trip.  When every read and insert of a push and of a later    *)
(* pull of the composer it created succeeds, the pull creates a local      *)
(* composer whose name is the original name followed by the copy marker,   *)
(* exactly once, whose period is the original one, and whose works and     *)
(* recordings match the originals one to one as multisets of               *)
(* (title, edition, year) and (title, performer, duration, year).          *)
(***************************************************************************)
IsReadOrInsert(e) == e.op \in {"read", "insert"}

RecordsAllOk(p) == \A k \in Entries(p, IsReadOrInsert) : call[p].log[k].ok

RoundTrip(p, q) ==
    /\ call[p].kind = "push" /\ call[p].pc = "done"
    /\ call[q].kind = "pull" /\ call[q].pc = "done"
    /\ p \in call[q].after
    /\ call[q].arg = call[p].dest
    /\ RecordsAllOk(p) /\ RecordsAllOk(q)

WorkFields(w) == [title |-> w.title, edition |-> w.edition, year |-> w.year]

RecordingFields(r) ==
    [title |-> r.title, performer |-> r.performer, duration |-> r.duration, year |-> r.year]

C9_RoundTrip ==
    \A p, q \in Procs : RoundTrip(p, q) =>
        /\ \E c \in RowsWithId(localComposers, call[q].dest) :
            /\ c.name = call[p].src.name \o <<CopySuffix>>
            /\ c.period = call[p].src.period
        /\ SameBag(MapSeq(WorkFields, SelectRows(localWorks, call[q].dest)),
                   MapSeq(WorkFields, call[p].src.works))
        /\ SameBag(MapSeq(RecordingFields, SelectRows(localRecordings, call[q].dest)),
                   MapSeq(RecordingFields, call[p].src.recordings))

C9_Witness ==
    \E p, q \in Procs :
        /\ RoundTrip(p, q)
        /\ Len(call[p].src.works) >= 2 /\ Len(call[p].src.recordings) >= 1
        /\ \A k \in DOMAIN call[q].log : call[q].log[k].ok
        /\ MapSeq(WorkFields, SelectRows(localWorks, call[q].dest))
            # MapSeq(WorkFields, call[p].src.works)

(***************************************************************************)
(* C10: every push and pull mints new identifiers.  The composer an        *)
(* invocation creates is a row of the destination store under an id that   *)
(* is neither the source composer's id nor the id of a composer another    *)
(* invocation created, and every Work and Recording row the invocation     *)
(* inserts carries that id as its composerId, under an id of its own that  *)
(* no source item has.                                                     *)
(***************************************************************************)
IsOkItemInsert(e) == IsItemInsert(e) /\ e.ok

SourceItemIds(p) ==
    {w.id : w \in Range(call[p].src.works)} \cup {r.id : r \in Range(call[p].src.recordings)}

C10_FreshIdentifiers ==
    \A p \in Pushes \cup Pulls : call[p].dest # 0 =>
        /\ call[p].dest # call[p].src.id
        /\ Cardinality(RowsWithId(DestTable(p, "composer"), call[p].dest)) = 1
        /\ \A q \in Procs \ {p} : call[q].dest # call[p].dest
        /\ \A k \in Entries(p, IsOkItemInsert) :
            LET e == call[p].log[k]
                rows == RowsWithId(DestTable(p, e.what), e.id)
            IN  /\ Cardinality(rows) = 1
                /\ \A row \in rows : row.composer_id = call[p].dest
                /\ e.id \notin SourceItemIds(p)

C10_Witness ==
    \E p \in Pushes, q \in Pulls :
        /\ call[p].pc = "done" /\ call[q].pc = "done"
        /\ call[q].arg = call[p].dest
        /\ Entries(p, IsOkItemInsert) # {}
        /\ Cardinality(Entries(q, IsOkItemInsert)) >= 2

(***************************************************************************)
(* C11: the asset field (image, file_url) of every record that a push or a *)
(* pull has inserted is empty, or it is the reference that the asset       *)
(* transfer of that same record, made by that same invocation just before  *)
(* the insert, got back from the destination asset store (a public URL of  *)
(* a stored object for push, the path of a written file for pull); it is   *)
(* never a reference of the source.                                        *)
(***************************************************************************)
IsOkInsert(e) == e.op = "insert" /\ e.ok

SourceRefs(p) ==
    {call[p].src.image} \cup {w.fileUrl : w \in Range(call[p].src.works)}
        \cup {r.fileUrl : r \in Range(call[p].src.recordings)}

InDestinationAssetStore(p, ref) ==
    IF call[p].kind = "push"
    THEN ref.kind = "url" /\ ref.key \in DOMAIN cloudObjects
    ELSE ref.kind = "path" /\ ref \in DOMAIN dataFiles

C11_AssetsAreRegenerated ==
    \A p \in Pushes \cup Pulls : \A k \in Entries(p, IsOkInsert) :
        LET e == call[p].log[k]
        IN  \A row \in RowsWithId(DestTable(p, e.what), e.id) :
                AssetOf(row, e.what) # NoRef =>
                    /\ k > 1
                    /\ call[p].log[k - 1].op = "asset" /\ call[p].log[k - 1].ok
                    /\ OwnerOf(call[p].log[k - 1].what) = e.what /\ call[p].log[k - 1].i = e.i
                    /\ InDestinationAssetStore(p, AssetOf(row, e.what))
                    /\ call[p].kind = "pull" => AssetOf(row, e.what).id = call[p].log[k - 1].id
                    /\ AssetOf(row, e.what) \notin SourceRefs(p)

C11_Witness ==
    \E p \in Pushes, q \in Pulls :
        /\ call[q].pc = "done" /\ call[q].arg = call[p].dest
        /\ \E c \in RowsWithId(cloudComposers, call[p].dest) : c.image # NoRef
        /\ \E c \in RowsWithId(localComposers, call[q].dest) : c.image # NoRef
        /\ \E w \in Range(SelectRows(localWorks, call[q].dest)) : w.file_url # NoRef

(***************************************************************************)
(* C12: sync only adds rows.  No step of a push or a pull removes or       *)
(* changes a composer, work or recording row of either store: every table  *)
(* keeps the rows it had, in place, and a step of a push leaves the local  *)
(* tables as they are while a step of a pull leaves the cloud tables as    *)
(* they are.                                                               *)
(***************************************************************************)
IsPrefix(a, b) == Len(a) <= Len(b) /\ SubSeq(b, 1, Len(a)) = a

KeepsRows ==
    /\ IsPrefix(localComposers, localComposers')
    /\ IsPrefix(localWorks, localWorks')
    /\ IsPrefix(localRecordings, localRecordings')
    /\ IsPrefix(cloudComposers, cloudComposers')
    /\ IsPrefix(cloudWorks, cloudWorks')
    /\ IsPrefix(cloudRecordings, cloudRecordings')

WritesDestinationOnly ==
    \A p \in Procs : call'[p] # call[p] =>
        /\ call'[p].kind = "push" => UNCHANGED <<localComposers, localWorks, localRecordings>>
        /\ call'[p].kind = "pull" => UNCHANGED <<cloudComposers, cloudWorks, cloudRecordings>>

C12_SyncIsAdditive == [][KeepsRows /\ WritesDestinationOnly]_vars

C12_Witness ==
    /\ Len(cloudComposers) >= 1 /\ Len(cloudWorks) >= 1 /\ Len(cloudRecordings) >= 1
    /\ Cardinality({id \in StoredIds : id >= FirstFreshId}) >= 3

(***************************************************************************)
(* C13: two pushes whose steps interleave do not mix their subtrees.  At   *)
(* every moment the remote works and recordings that reference the         *)
(* composer of a push are exactly the rows that push inserted, and when a  *)
(* push whose inserts all succeeded has returned, the works and recordings *)
(* of its remote composer are those of its own source, one for one and in  *)
(* the source's order.                                                     *)
(***************************************************************************)
ChildIds(rows, cid) == {r.id : r \in Range(SelectRows(rows, cid))}

C13_ConcurrentPushesKeepSubtrees ==
    \A p \in Pushes : call[p].dest # 0 =>
        /\ ChildIds(cloudWorks, call[p].dest) = OkItemInsertIds(p, "work")
        /\ ChildIds(cloudRecordings, call[p].dest) = OkItemInsertIds(p, "rec")
        /\ (call[p].pc = "done" /\ RecordsAllOk(p)) =>
            /\ MapSeq(WorkFields, SelectRows(cloudWorks, call[p].dest))
                = MapSeq(WorkFields, call[p].src.works)
            /\ MapSeq(RecordingFields, SelectRows(cloudRecordings, call[p].dest))
                = MapSeq(RecordingFields, call[p].src.recordings)

\* both pushes have returned, and each inserted a row between two inserts of the other
C13_Witness ==
    \E p, q \in Pushes :
        /\ call[p].arg # call[q].arg
        /\ call[p].pc = "done" /\ call[q].pc = "done"
        /\ RecordsAllOk(p) /\ RecordsAllOk(q)
        /\ call[p].dest < call[q].dest
        /\ \E a \in OkItemInsertIds(p, "work") \cup OkItemInsertIds(p, "rec") :
            /\ call[q].dest < a
            /\ \E b \in OkItemInsertIds(q, "work") \cup OkItemInsertIds(q, "rec") : a < b

(***************************************************************************)
(* C14: the content type an asset file is uploaded with is the one the     *)
(* table gives for the lower-cased extension of its path (pdf, jpg, jpeg,  *)
(* png, webp, mp3, wav, m4a, ogg), and application/octet-stream for every  *)
(* other extension.  The code does not do this for an extension that names *)
(* an inherited member of the lookup object, such as "constructor".        *)
(***************************************************************************)
MimeTable ==
    [pdf |-> "application/pdf", jpg |-> "image/jpeg", jpeg |-> "image/jpeg",
     png |-> "image/png", webp |-> "image/webp", mp3 |-> "audio/mpeg",
     wav |-> "audio/wav", m4a |-> "audio/mp4", ogg |-> "audio/ogg"]

TableContentType(ext) ==
    IF ext \in DOMAIN MimeTable THEN MimeTable[ext] ELSE "application/octet-stream"

UploadedFrom(key) == {localPath \in DOMAIN docFiles : key.ids = <<localPath.id>>}

C14_ContentTypeFollowsTable ==
    \A key \in DOMAIN cloudObjects : \A localPath \in UploadedFrom(key) :
        cloudObjects[key].contentType = TableContentType(ToLower(localPath.ext))

(***************************************************************************)
(* C15: update(id, partial) on a local Composer, Work or Recording sets    *)
(* every field that the partial input holds to the value given, an empty   *)
(* value included, leaves every other field as it was, never changes id or *)
(* composerId, and returns the row as read back from the store.  The code  *)
(* does not do this: dbUpdateWork skips every field whose value is empty,  *)
(* and dbUpdateWork and dbUpdateRecording skip an empty fileUrl.           *)
(***************************************************************************)
StoredTable(table) ==
    CASE table = "composers" -> localComposers
      [] table = "works" -> localWorks
      [] table = "recordings" -> localRecordings

\* the column a field of the API is stored in
ColumnOf(f) ==
    CASE f = "fileUrl" -> "file_url"
      [] f = "composerId" -> "composer_id"
      [] OTHER -> f

KeyColumns == {"id", "composer_id"}

C15_UpdateAppliesPartialInput ==
    (lastOp.op = "update" /\ ~lastOp.thrown) =>
        LET after == RowOf(StoredTable(lastOp.table), lastOp.id)
        IN  /\ \A f \in DOMAIN lastOp.input :
                ColumnOf(f) \in DOMAIN lastOp.before \ KeyColumns =>
                    after[ColumnOf(f)] = lastOp.input[f]
            /\ \A c \in DOMAIN lastOp.before :
                (\A f \in DOMAIN lastOp.input : ColumnOf(f) # c) => after[c] = lastOp.before[c]
            /\ \A c \in KeyColumns \cap DOMAIN lastOp.before : after[c] = lastOp.before[c]
            /\ \A c \in DOMAIN after : lastOp.result[c] = after[c]

(***************************************************************************)
(* C16: after any sequence of create, update and delete calls on the local *)
(* store every Work and every Recording row references exactly one         *)
(* Composer row that exists, and right after the delete of a composer no   *)
(* Work or Recording with its id as composerId is left.                    *)
(***************************************************************************)
OwnersOf(row) == {k \in DOMAIN localComposers : localComposers[k].id = row.composer_id}

C16_ChildrenHaveOneComposer ==
    /\ \A w \in Range(localWorks) : Cardinality(OwnersOf(w)) = 1
    /\ \A r \in Range(localRecordings) : Cardinality(OwnersOf(r)) = 1
    /\ (lastOp.op = "delete" /\ lastOp.table = "composers") =>
        /\ lastOp.id \notin RowIds(localComposers)
        /\ SelectRows(localWorks, lastOp.id) = <<>>
        /\ SelectRows(localRecordings, lastOp.id) = <<>>

\* a composer with works and a recording was deleted after a work had been
\* created, and the other composer still has its children
C16_Witness ==
    /\ lastOp.op = "delete" /\ lastOp.table = "composers" /\ lastOp.n = MaxOps
    /\ lastOp.id = 2
    /\ localComposers # <<>> /\ localWorks # <<>> /\ localRecordings # <<>>
    /\ \E w \in Range(localWorks) : w.id >= FirstFreshId

(***************************************************************************)
(* C17: every non-empty asset reference that a pull has stored in a local  *)
(* record can be read through the local asset store: readLocalFile of the  *)
(* reference returns the bytes that were downloaded for it.  The code does *)
(* not do this: the download writes the file under Directory.Data, and     *)
(* readLocalFile (like getLocalFileUri and deleteLocalFile) looks under    *)
(* Directory.Documents.                                                    *)
(***************************************************************************)
\* the source reference whose download the k-th step of invocation q was
SourceRefOf(q, k) ==
    LET e == call[q].log[k]
    IN  CASE e.what = "avatar" -> call[q].src.image
          [] e.what = "work" -> call[q].src.works[e.i].fileUrl
          [] e.what = "rec" -> call[q].src.recordings[e.i].fileUrl

C17_PulledAssetsResolveLocally ==
    \A q \in Pulls : \A k \in Entries(q, IsOkInsert) :
        LET e == call[q].log[k]
        IN  \A row \in RowsWithId(DestTable(q, e.what), e.id) :
                AssetOf(row, e.what) # NoRef =>
                    /\ CanRead(AssetOf(row, e.what))
                    /\ readLocalFile(AssetOf(row, e.what)).bytes
                        = cloudObjects[SourceRefOf(q, k - 1).key].bytes

(***************************************************************************)
(* C18: the steps of one push or pull are taken one after the other, each  *)
(* once: the avatar transfer (when there is one), the composer insert,     *)
(* then for each work in the order of the source collection its file       *)
(* transfer (when it has a file) followed by its insert, then the same for *)
(* each recording.  What an invocation has done so far is always a prefix  *)
(* of that sequence, all of it once the call has returned, so no step is   *)
(* retried or skipped and item i is finished before item i + 1 begins.     *)
(***************************************************************************)
StepOf(op, what, i) == [op |-> op, what |-> what, i |-> i]

ItemSteps(items, what) ==
    Flatten([i \in DOMAIN items |->
        (IF items[i].fileUrl # NoRef THEN <<StepOf("asset", what, i)>> ELSE <<>>)
            \o <<StepOf("insert", what, i)>>])

ExpectedSteps(src) ==
    (IF src.image # NoRef THEN <<StepOf("asset", "avatar", 0)>> ELSE <<>>)
        \o <<StepOf("insert", "composer", 0)>>
        \o ItemSteps(src.works, "work")
        \o ItemSteps(src.recordings, "rec")

IsTransferOrInsert(e) == e.op \in {"asset", "insert"}

StepLabel(e) == StepOf(e.op, e.what, e.i)

StepsTaken(p) == MapSeq(StepLabel, SelectSeq(call[p].log, IsTransferOrInsert))

C18_StepsAreSequential ==
    \A p \in Pushes \cup Pulls :
        LET taken == StepsTaken(p)
            expected == ExpectedSteps(call[p].src)
        IN  /\ IsPrefix(taken, expected)
            /\ call[p].pc = "done" => Len(taken) = Len(expected)
            /\ call[p].pc \in {"avatar", "composer", "workAsset", "workInsert", "recAsset", "recInsert"} =>
                /\ Len(taken) < Len(expected)
                /\ expected[Len(taken) + 1].op
                    = (IF call[p].pc \in {"avatar", "workAsset", "recAsset"} THEN "asset" ELSE "insert")
                /\ expected[Len(taken) + 1].i = call[p].i

C18_Witness ==
    \E p \in Pushes, q \in Pulls :
        /\ call[p].pc = "done" /\ call[q].pc = "done"
        /\ Len(StepsTaken(p)) >= 5 /\ Len(StepsTaken(q)) >= 5
        /\ Len(call[q].src.works) >= 2

(***************************************************************************)
(* C19: progress never runs ahead of the work.  When onProgress has been   *)
(* called k times (k >= 1) by a push or a pull, the composer row of that   *)
(* invocation is in the destination store and the inserts of the first     *)
(* k - 1 items (works, then recordings) have been attempted; as long as    *)
(* only the avatar has been transferred nothing has been reported.         *)
(***************************************************************************)
ItemInsertsTaken(p) == MapSeq(StepLabel, SelectSeq(call[p].log, IsItemInsert))

ItemInsertsExpected(p) ==
    [i \in DOMAIN call[p].src.works |-> StepOf("insert", "work", i)]
        \o [i \in DOMAIN call[p].src.recordings |-> StepOf("insert", "rec", i)]

C19_ProgressFollowsTheWork ==
    \A p \in Pushes \cup Pulls :
        /\ call[p].currentStep = Len(call[p].progress)
        /\ Len(call[p].progress) >= 1 =>
            LET taken == ItemInsertsTaken(p)
                k == Len(call[p].progress)
            IN  /\ call[p].dest # 0
                /\ \E c \in Range(DestTable(p, "composer")) : c.id = call[p].dest
                /\ Len(taken) >= k - 1
                /\ SubSeq(taken, 1, k - 1) = SubSeq(ItemInsertsExpected(p), 1, k - 1)
        /\ Entries(p, IsOkInsert) = {} => call[p].progress = <<>>

C19_Witness ==
    \E p \in Pulls :
        /\ call[p].pc = "recInsert"
        /\ Len(call[p].progress) = 2
        /\ call[p].log[4].op = "asset" /\ call[p].log[4].what = "avatar"
        /\ \E q \in Pushes : Entries(q, IsFailedItemInsert) = {} /\ call[q].dest = call[p].arg

(***************************************************************************)
(* C20: the remote composer row a push creates carries the number of works *)
(* and the number of recordings of the source composer, and during and     *)
(* after that push the remote works (recordings) that reference the row    *)
(* are never more than that number; once the push has returned they are    *)
(* exactly as many when, and only when, no insert of a work or recording   *)
(* failed.                                                                 *)
(***************************************************************************)
C20_CountsBoundTheChildren ==
    \A p \in Pushes : call[p].dest # 0 =>
        \A c \in RowsWithId(cloudComposers, call[p].dest) :
            /\ c.sheet_music_count = Len(call[p].src.works)
            /\ c.sheet_music_count = Len(SelectRows(localWorks, call[p].arg))
            /\ c.recording_count = Len(call[p].src.recordings)
            /\ c.recording_count = Len(SelectRows(localRecordings, call[p].arg))
            /\ Len(SelectRows(cloudWorks, c.id)) <= c.sheet_music_count
            /\ Len(SelectRows(cloudRecordings, c.id)) <= c.recording_count
            /\ call[p].pc = "done" =>
                ((/\ Len(SelectRows(cloudWorks, c.id)) = c.sheet_music_count
                  /\ Len(SelectRows(cloudRecordings, c.id)) = c.recording_count)
                    <=> Entries(p, IsFailedItemInsert) = {})

C20_Witness ==
    \E p, q \in Pushes :
        /\ call[p].pc = "done" /\ call[q].pc = "done"
        /\ \E c \in RowsWithId(cloudComposers, call[p].dest) :
            /\ c.sheet_music_count = 2
            /\ Len(SelectRows(cloudWorks, c.id)) = 1
        /\ \E c \in RowsWithId(cloudComposers, call[q].dest) :
            /\ c.sheet_music_count + c.recording_count >= 2
            /\ Len(SelectRows(cloudWorks, c.id)) = c.sheet_music_count
            /\ Len(SelectRows(cloudRecordings, c.id)) = c.recording_count

(***************************************************************************)
(* C21: every object a push uploads lies under a key derived from the id   *)
(* of the remote composer that push creates, so the asset references of    *)
(* the rows of two pushes are pairwise distinct, also when both pushed the *)
(* same local composer, and a later push leaves the objects of an earlier  *)
(* one alone.  The code does not do this for the avatar: its key is        *)
(* composers/<id of the local composer>, uploaded with upsert, so a second *)
(* push of the same composer writes the object of the first one again and  *)
(* both remote composers reference it.                                      *)
(***************************************************************************)
\* the non-empty asset references of the remote rows push p has created
PushedRefs(p) ==
    ({c.image : c \in RowsWithId(cloudComposers, call[p].dest)}
        \cup {w.file_url : w \in Range(SelectRows(cloudWorks, call[p].dest))}
        \cup {r.file_url : r \in Range(SelectRows(cloudRecordings, call[p].dest))}) \ {NoRef}

C21_PushesUseKeysOfTheirOwn ==
    \A p \in Pushes : call[p].dest # 0 =>
        /\ \A ref \in PushedRefs(p) : call[p].dest \in Range(ref.key.ids)
        /\ \A q \in Pushes \ {p} : call[q].dest # 0 => PushedRefs(p) \cap PushedRefs(q) = {}

(***************************************************************************)
(* C22: when a local composer whose avatar file is in the local asset      *)
(* store is pushed through the admin flow (hydrated by getComposer, then   *)
(* handed to pushComposer) and no I/O operation fails, the avatar is read  *)
(* and uploaded and the image of the remote composer row is the URL of the *)
(* uploaded object.  The code does not do this: getComposer replaces the   *)
(* stored path by its WebView URL, pushComposerToCloud hands that URL to   *)
(* readLocalFile, the read fails, and the row is inserted with image ''.   *)
(***************************************************************************)
\* the stored image of the local composer that push p was given
StoredImageOf(p) == RowOf(localComposers, call[p].arg).image

\* getComposer resolved the image (getUri succeeded) and nothing failed since
HydratedWithoutFailure(p) ==
    /\ StoredImageOf(p) \in DOMAIN docFiles
    /\ call[p].src.image = WebViewSrc(StoredImageOf(p))
    /\ faults = 0

C22_AdminPushUploadsAvatar ==
    \A p \in Pushes : (call[p].dest # 0 /\ HydratedWithoutFailure(p)) =>
        \A c \in RowsWithId(cloudComposers, call[p].dest) :
            /\ c.image # NoRef
            /\ c.image.kind = "url"
            /\ c.image.key \in DOMAIN cloudObjects
            /\ cloudObjects[c.image.key].bytes = docFiles[StoredImageOf(p)].bytes

(***************************************************************************)
(* C23: when a pull downloads an asset, creating the category directory is *)
(* idempotent: a directory that exists already does not make the transfer  *)
(* fail; and every other error of the directory creation propagates, so    *)
(* that the transfer of this asset is recorded as failed and the record is *)
(* stored without a reference.  The code does not do the second part: the  *)
(* catch around Filesystem.mkdir in downloadCloudFileToLocal drops every   *)
(* error, and the transfer goes on to the write.                           *)
(***************************************************************************)
\* invocation p has just finished an asset transfer
JustTransferred(p) == call[p].log # <<>> /\ Last(call[p].log).op = "asset"

TransferredRef(p) ==
    IF Last(call[p].log).what = "avatar" THEN call[p].image ELSE call[p].fileRef

C23_MkdirErrorsPropagate ==
    \A p \in Pulls : JustTransferred(p) =>
        /\ (call[p].mkdir = "exists" /\ faults = 0) =>
            /\ Last(call[p].log).ok
            /\ TransferredRef(p) \in DOMAIN dataFiles
        /\ call[p].mkdir = "error" =>
            /\ ~Last(call[p].log).ok
            /\ TransferredRef(p) = NoRef

(***************************************************************************)
(* C24: when the insert of the remote composer row fails, pushComposer     *)
(* rejects there and then: onProgress has not been called and is never     *)
(* called, no work or recording of that invocation is transferred or       *)
(* inserted, and the remote tables hold only what the other invocations    *)
(* inserted.  An avatar that was uploaded before the insert stays in the   *)
(* remote asset store.                                                     *)
(***************************************************************************)
IsFailedComposerInsert(e) == e.op = "insert" /\ e.what = "composer" /\ ~e.ok

ComposerInsertFailed(p) == call[p].kind = "push" /\ Entries(p, IsFailedComposerInsert) # {}

IsOkAvatar(e) == e.op = "asset" /\ e.what = "avatar" /\ e.ok

IsItemStep(e) == e.what \in {"work", "rec"}

AvatarKeyOf(p) == UploadKey(call[p].src.image, "avatars", "composers", <<call[p].src.id>>)

C24_FailedComposerInsertRejects ==
    /\ \A p \in Procs : ComposerInsertFailed(p) =>
        /\ call[p].pc = "rejected"
        /\ IsFailedComposerInsert(Last(call[p].log))
        /\ call[p].progress = <<>> /\ call[p].currentStep = 0
        /\ call[p].dest = 0
        /\ Entries(p, IsItemStep) = {}
        /\ Entries(p, IsOkAvatar) # {} => AvatarKeyOf(p) \in DOMAIN cloudObjects
    /\ RowIds(cloudWorks) = UNION {OkItemInsertIds(q, "work") : q \in {r \in Pushes : ~ComposerInsertFailed(r)}}
    /\ RowIds(cloudRecordings) = UNION {OkItemInsertIds(q, "rec") : q \in {r \in Pushes : ~ComposerInsertFailed(r)}}
    /\ \A w \in Range(cloudWorks) : w.composer_id \in CloudComposerIds
    /\ \A r \in Range(cloudRecordings) : r.composer_id \in CloudComposerIds

\* the insert failed after the avatar had been uploaded, for a composer that
\* has works and recordings, and an earlier push had filled the remote tables
C24_Witness ==
    \E p \in Procs :
        /\ ComposerInsertFailed(p)
        /\ Entries(p, IsOkAvatar) # {}
        /\ AvatarKeyOf(p) \in DOMAIN cloudObjects
        /\ Len(call[p].src.works) >= 1 /\ Len(call[p].src.recordings) >= 1
        /\ cloudWorks # <<>> /\ cloudRecordings # <<>>

(***************************************************************************)
(* C25: provided every external operation completes, with success or with  *)
(* failure, every pushComposer invocation eventually returns, and it       *)
(* returns only after the insert of every work and of every recording of   *)
(* the source has been attempted.  As stated this does not hold: an        *)
(* invocation whose composer insert fails never returns, it rejects.       *)
(***************************************************************************)
AttemptedEveryItem(p) ==
    /\ \A i \in DOMAIN call[p].src.works :
        \E k \in DOMAIN call[p].log :
            call[p].log[k].op = "insert" /\ call[p].log[k].what = "work" /\ call[p].log[k].i = i
    /\ \A i \in DOMAIN call[p].src.recordings :
        \E k \in DOMAIN call[p].log :
            call[p].log[k].op = "insert" /\ call[p].log[k].what = "rec" /\ call[p].log[k].i = i

ReturnsAfterEveryItem == \A p \in Pushes : call[p].pc = "done" => AttemptedEveryItem(p)

C25_PushAlwaysReturns ==
    /\ \A p \in Procs : (call[p].kind = "push") ~> (call[p].pc = "done")
    /\ []ReturnsAfterEveryItem

\* C25 as amended: every pushComposer invocation eventually returns or
\* rejects; it rejects only right after the failed insert of the composer
\* row, and it returns only after the insert of every work and of every
\* recording of the source has been attempted.
RejectsOnlyOnComposerInsert ==
    \A p \in Pushes : call[p].pc = "rejected" => IsFailedComposerInsert(Last(call[p].log))

C25_PushReturnsOrRejects ==
    /\ \A p \in Procs : (call[p].kind = "push") ~> (call[p].pc \in {"done", "rejected"})
    /\ []ReturnsAfterEveryItem
    /\ []RejectsOnlyOnComposerInsert

\* a push has returned although a transfer or an insert of it failed, with
\* every work and every recording of its source attempted
C25_Witness ==
    \E p \in Pushes :
        /\ call[p].pc = "done"
        /\ Len(call[p].src.works) >= 2 /\ Len(call[p].src.recordings) >= 1
        /\ \E k \in DOMAIN call[p].log : ~call[p].log[k].ok
        /\ AttemptedEveryItem(p)

(***************************************************************************)
(* C26: a push writes the remote store row by row.  Every row it has       *)
(* inserted is in the remote tables from the step of its insert on, where  *)
(* any reader sees it, so that while the push is in flight the composer    *)
(* row can be there with some of its works still missing; and no step of   *)
(* any push takes a remote row away or changes it again, whether the call  *)
(* goes on to return or to reject.                                         *)
(***************************************************************************)
InsertedSoFarIsVisible ==
    \A p \in Pushes : call[p].dest # 0 =>
        /\ Cardinality(RowsWithId(cloudComposers, call[p].dest)) = 1
        /\ ChildIds(cloudWorks, call[p].dest) = OkItemInsertIds(p, "work")
        /\ ChildIds(cloudRecordings, call[p].dest) = OkItemInsertIds(p, "rec")
        /\ call[p].pc \in {"workAsset", "workInsert"} =>
            Len(SelectRows(cloudWorks, call[p].dest)) < Len(call[p].src.works)

KeepsRemoteRows ==
    /\ IsPrefix(cloudComposers, cloudComposers')
    /\ IsPrefix(cloudWorks, cloudWorks')
    /\ IsPrefix(cloudRecordings, cloudRecordings')

C26_PushMutatesIncrementally == []InsertedSoFarIsVisible /\ [][KeepsRemoteRows]_vars

\* a push in flight: its composer row and its first work are in the remote
\* store, its second work is not
C26_Witness ==
    \E p \in Pushes :
        /\ call[p].pc \in {"workAsset", "workInsert"}
        /\ Len(call[p].src.works) = 2
        /\ Cardinality(RowsWithId(cloudComposers, call[p].dest)) = 1
        /\ Len(SelectRows(cloudWorks, call[p].dest)) = 1

(***************************************************************************)
(* C27: after localApi.deleteComposer(id) has resolved, the composer row   *)
(* and all works and recordings of the composer are gone from the local    *)
(* database, whether or not a file deletion failed; and when no filesystem *)
(* operation failed, none of the files the composer, its works and its     *)
(* recordings referenced is left in the local asset store.  The code does  *)
(* not do the second part for the avatar: it deletes the image that        *)
(* dbGetComposer returns, which is the WebView URL of the file and names   *)
(* no file, so the avatar file stays.                                      *)
(***************************************************************************)
DeleteComposerResolved == lastOp.op = "deleteComposer" /\ ~lastOp.thrown

NoFilesystemFailure == lastOp.uriOk /\ lastOp.readOk /\ lastOp.failed = {} /\ faults = 0

C27_DeleteComposerRemovesAll ==
    DeleteComposerResolved =>
        /\ lastOp.id \notin RowIds(localComposers)
        /\ SelectRows(localWorks, lastOp.id) = <<>>
        /\ SelectRows(localRecordings, lastOp.id) = <<>>
        /\ NoFilesystemFailure => lastOp.owned \cap DOMAIN docFiles = {}

(***************************************************************************)
(* C28: in the storage-mode provider a failed initialization of the local  *)
(* database falls back to cloud mode.  After any sequence of completed     *)
(* loadMode and setStorageMode calls, storageMode = 'local' implies that   *)
(* the local database was initialized (dbReady), a setStorageMode call     *)
(* has stored 'local' as the preference only in that case, and             *)
(* storageMode = 'local' implies a native platform.  The code does not do  *)
(* this: setStorageMode('local') goes on after initLocalDatabase has       *)
(* failed and fallen back, sets the mode to 'local' and stores it.         *)
(***************************************************************************)
StoredLocalJustNow ==
    /\ provider.last.op = "setStorageMode"
    /\ provider.last.mode = "local"
    /\ provider.last.setOk
    /\ provider.preference = "local"

C28_LocalModeImpliesDatabase ==
    /\ provider.storageMode = "local" => provider.dbReady
    /\ StoredLocalJustNow => provider.dbReady
    /\ provider.storageMode = "local" => provider.isNativeApp

(***************************************************************************)
(* C29: the batch push of the push modal.  The selected composers are      *)
(* pushed one at a time in list order; when the push of a composer         *)
(* rejects, the composers after it are not pushed, those before it stay    *)
(* pushed and the result is 'error'; the result is 'success', with         *)
(* progress 100, only when every selected push has resolved; the overall   *)
(* progress values of a batch never decrease; and isPushing is true        *)
(* whenever a push of the batch is in flight, a batch being started only   *)
(* while isPushing is false.                                               *)
(***************************************************************************)
RECURSIVE ReportsFrom(_)
\* the values the onProgress callbacks of the batch have passed to setPushProgress
ReportsFrom(p) ==
    IF p \notin StartedOfBatch
    THEN <<>>
    ELSE [k \in DOMAIN call[p].progress |->
             OverallProgress(p - pushModal.first, call[p].progress[k], Len(pushModal.batch))]
         \o ReportsFrom(p + 1)

\* every value handlePush has given setPushProgress in the batch, in order
PushProgressValues ==
    <<0>> \o ReportsFrom(pushModal.first)
          \o (IF ~pushModal.isPushing /\ pushModal.pushResult = "success" THEN <<100>> ELSE <<>>)

BatchSettled == pushModal.n >= 1 /\ ~pushModal.isPushing

StaysPushed(p) ==
    /\ call[p].pc = "done"
    /\ \E c \in Range(cloudComposers) : c.id = call[p].dest /\ c.name = call[p].src.name

BatchInOrder ==
    pushModal.n >= 1 =>
        /\ Cardinality(InFlight) <= 1
        /\ Cardinality(StartedOfBatch) <= Len(pushModal.batch)
        /\ \A p \in StartedOfBatch :
            /\ call[p].kind = "push"
            /\ call[p].arg = pushModal.batch[p - pushModal.first + 1]
            /\ \A q \in StartedOfBatch : q < p => StaysPushed(q)

BatchResult ==
    BatchSettled =>
        /\ pushModal.pushResult \in {"success", "error", "null"}
        /\ pushModal.pushResult = "error" =>
            /\ \E p \in StartedOfBatch : call[p].pc = "rejected"
            /\ Cardinality(StartedOfBatch) <= Len(pushModal.batch)
        /\ (\E p \in StartedOfBatch : call[p].pc = "rejected") =>
               pushModal.pushResult \in {"error", "null"}
        /\ pushModal.pushResult = "success" =>
            /\ Cardinality(StartedOfBatch) = Len(pushModal.batch)
            /\ \A p \in StartedOfBatch : call[p].pc = "done"
            /\ pushModal.pushProgress = 100

BatchProgressNeverDecreases ==
    pushModal.n >= 1 =>
        \A k \in 1..(Len(PushProgressValues) - 1) :
            PushProgressValues[k] <= PushProgressValues[k + 1]

PushingWhileInFlight ==
    /\ InFlight # {} => pushModal.isPushing
    /\ ~pushModal.isPushing => \A p \in Procs : call[p].pc \in {"idle", "done", "rejected"}

BatchStartsWhenNotPushing ==
    pushModal'.n # pushModal.n =>
        /\ ~pushModal.isPushing /\ pushModal'.isPushing /\ InFlight = {}
        /\ pushModal'.batch = ListOrder(pushModal'.selectedIds)

BatchEndsWithResult ==
    (pushModal.isPushing /\ ~pushModal'.isPushing) =>
        pushModal'.pushResult =
            IF \E p \in StartedOfBatch : call[p].pc = "rejected" THEN "error" ELSE "success"

PullsOf(id) == {p \in Procs : call[p].kind = "pull" /\ call[p].arg = id}

AtMostOnePullPerId ==
    \A id \in CloudComposerIds : Cardinality(PullsOf(id) \cap InFlight) <= 1

StatusFollowsOutcome ==
    \A id \in CloudComposerIds :
        /\ PullState(id) = "done" => \E p \in PullsOf(id) : call[p].pc = "done"
        /\ PullState(id) = "error" => \E p \in PullsOf(id) : call[p].pc = "rejected"
        /\ PullState(id) = "idle" => PullsOf(id) = {}

PullStateSteps ==
    {<<"idle", "pulling">>, <<"pulling", "done">>, <<"pulling", "error">>, <<"error", "pulling">>}

StatusTransition ==
    \A id \in CloudComposerIds :
        LET before == PullState(id)
            after == IF id \in DOMAIN pullStatus'.pullingIds
                     THEN pullStatus'.pullingIds[id] ELSE "idle"
        IN  /\ before # after => <<before, after>> \in PullStateSteps
            /\ (before # after /\ after = "pulling") => DialogId = id

NoPullWhilePullingOrDone ==
    \A p \in Procs :
        (call[p].kind = "idle" /\ call'[p].kind = "pull") =>
            PullState(call'[p].arg) \notin {"pulling", "done"}

C30_PullStatusMachine ==
    /\ [](AtMostOnePullPerId /\ StatusFollowsOutcome)
    /\ [][StatusTransition /\ NoPullWhilePullingOrDone]_vars

====
